---- MODULE Spec2Model ----
(***************************************************************************)
(* Model of the MCR session pipeline of src/python1/mcrws3.py: the prompt  *)
(* chain executor, the clause normalizer, the schema extractor,            *)
(* assert_into_session, run_query with the reasoning dispatcher, update_kb *)
(* and the file-backed session store, with one process per HTTP request.   *)
(* Text is a sequence of one-character strings, so that strip, splitlines  *)
(* and the clause pattern are computed as Python computes them.            *)
(***************************************************************************)
EXTENDS Integers, Sequences, FiniteSets, TLC

VARIABLES store, clock, calls, prompts, container, gui

vars == <<store, clock, calls, prompts, container, gui>>

(***************************************************************************)
(* Bounds of the model.                                                    *)
(***************************************************************************)
MaxCalls == 2
MaxVariants == 2
MaxSessions == 1
MaxLen == 5
MaxLines == 2

Calls == 1..MaxCalls
Sids == 1..MaxSessions

(***************************************************************************)
(* Python string primitives, over the characters the inputs use.           *)
(***************************************************************************)
Lower == {"a", "b", "p", "q", "n", "o"}
Upper == {"R", "U", "L", "E", "F", "A", "C", "T"}
Whitespace == {" ", "\n"}
IdentChars == Lower \cup Upper \cup {"_"}
Chars == Lower \cup Upper \cup Whitespace \cup {"(", ")", ".", ",", ":", "-", "%", "_"}

NL == <<"\n">>

\* first index >= i whose character is not in S (Len(s)+1 when there is none)
RECURSIVE SkipWhile(_, _, _)
SkipWhile(s, i, S) ==
    IF i <= Len(s) /\ s[i] \in S THEN SkipWhile(s, i + 1, S) ELSE i

\* last index <= i whose character is not in S (0 when there is none)
RECURSIVE SkipBack(_, _, _)
SkipBack(s, i, S) ==
    IF i >= 1 /\ s[i] \in S THEN SkipBack(s, i - 1, S) ELSE i

\* first index >= i holding character c, 0 when there is none
RECURSIVE FindChar(_, _, _)
FindChar(s, i, c) ==
    IF i > Len(s) THEN 0 ELSE IF s[i] = c THEN i ELSE FindChar(s, i + 1, c)

\* str.strip()
strip(s) ==
    SubSeq(s, SkipWhile(s, 1, Whitespace), SkipBack(s, Len(s), Whitespace))

\* str.splitlines()
RECURSIVE splitlines(_)
splitlines(s) ==
    IF s = <<>> THEN <<>>
    ELSE LET k == FindChar(s, 1, "\n") IN
         IF k = 0 THEN <<s>>
         ELSE <<SubSeq(s, 1, k - 1)>> \o splitlines(SubSeq(s, k + 1, Len(s)))

\* "\n".join(list)
RECURSIVE join(_)
join(l) ==
    IF l = <<>> THEN <<>>
    ELSE IF Len(l) = 1 THEN l[1]
    ELSE l[1] \o NL \o join(Tail(l))

\* str.upper()
upper(s) ==
    [k \in 1..Len(s) |->
        CASE s[k] = "a" -> "A" [] s[k] = "b" -> "B" [] s[k] = "p" -> "P"
          [] s[k] = "q" -> "Q" [] s[k] = "n" -> "N" [] s[k] = "o" -> "O"
          [] OTHER -> s[k]]

\* needle in haystack
Contains(hay, needle) ==
    \E i \in 1..(Len(hay) + 1 - Len(needle)) :
        SubSeq(hay, i, i + Len(needle) - 1) = needle

(***************************************************************************)
(* MCRService._extract_prolog: the clause pattern, matched in multi-line   *)
(* mode: at a line start, a lowercase letter, identifier characters, an    *)
(* opening parenthesis, lazily anything (newlines included) up to the      *)
(* first closing parenthesis, an optional dot, greedy whitespace (newlines *)
(* included) and an optional rule body from the rule separator to the end  *)
(* of that line; then the terminator fix-up of every match.                *)
(***************************************************************************)
LineStart(s, i) == i = 1 \/ s[i - 1] = "\n"

\* index one past the end of the match that starts at i, 0 when none starts there
MatchEnd(s, i) ==
    IF ~(i <= Len(s) /\ LineStart(s, i) /\ s[i] \in Lower) THEN 0
    ELSE LET j == SkipWhile(s, i + 1, IdentChars) IN
         IF j > Len(s) \/ s[j] # "(" THEN 0
         ELSE LET k == FindChar(s, j + 1, ")") IN
              IF k = 0 THEN 0
              ELSE LET d == IF k + 1 <= Len(s) /\ s[k + 1] = "." THEN k + 2 ELSE k + 1
                       w == SkipWhile(s, d, Whitespace)
                   IN  IF w + 1 <= Len(s) /\ s[w] = ":" /\ s[w + 1] = "-"
                       THEN SkipWhile(s, w + 2, Chars \ {"\n"})
                       ELSE w

\* prolog_pattern.findall(text), scanning from index i
RECURSIVE findall(_, _)
findall(s, i) ==
    IF i > Len(s) THEN <<>>
    ELSE LET e == MatchEnd(s, i) IN
         IF e = 0 THEN findall(s, i + 1)
         ELSE <<SubSeq(s, i, e - 1)>> \o findall(s, e)

EndsWithDot(s) == s # <<>> /\ s[Len(s)] = "."

Terminate(line) ==
    IF EndsWithDot(strip(line)) THEN strip(line) ELSE strip(line) \o <<".">>

_extract_prolog(text) ==
    LET m == findall(text, 1) IN [k \in 1..Len(m) |-> Terminate(m[k])]

(***************************************************************************)
(* Inputs: what the generation backend can answer, the natural-language    *)
(* texts a client sends, and the KB texts a client submits to update_kb.   *)
(***************************************************************************)
Templates == {"INTENT_CLASSIFIER", "NL_TO_FACTS", "NL_TO_RULES"}

Reply(text) == [ok |-> TRUE, content |-> text]
\* ILlmProvider.generate raising ProviderError
Failure == [ok |-> FALSE, content |-> <<>>]

IntentReplies ==
    { Reply(<<" ">>),
      Reply(<<"R", "U", "L", "E">>),
      Reply(<<" ", "F", "A", "C", "T", "\n">>),
      Failure }

TranslateReplies ==
    { Reply(<<>>),
      Reply(<<"p", "(", "a", ")", ".">>),
      Reply(<<" ", "q", "(", "b", ")", "\n">>),
      Reply(<<"p", "(", "a", ",", "\n", "b", ")", ".">>),
      Reply(<<"n", "o">>),
      Failure }

Texts == {"t1"}

KbTexts ==
    { <<" ", "p", "(", "a", ")", ".">>,
      <<"%", " ", "\n", "q", "(", "b", ")", ".">> }

(***************************************************************************)
(* The dependency container of the server and the state of the desktop     *)
(* client, as they are after construction.                                 *)
(***************************************************************************)
\* Python's None where a text is expected
null == <<"None">>

\* DependencyContainer.__init__: the stored LLM configuration (a key the
\* dictionary lacks reads as None), the active provider made from it, and
\* the GOOGLE_API_KEY variable of the process environment
MockLlmProvider ==
    [kind |-> "Mock", model |-> null, api_key |-> null, base_url |-> null]

DependencyContainer ==
    [llm_config_store |-> [provider |-> "Mock", model |-> <<"mock-model">>,
                           api_key |-> null, base_url |-> null],
     llm_provider |-> MockLlmProvider,
     GOOGLE_API_KEY |-> null]

\* UIState._session_id before any session is current
NoSessionId == -1

\* UIState.__init__ and the widgets of MainWindow: the current session id,
\* the KB text and the session list of the UI state, the text of the KB
\* editor, whether the save timer is running, the slot that ran last with
\* whether every request it made succeeded, and whether the process runs
UIState ==
    [session_id |-> NoSessionId, kb_text |-> <<>>, sessions |-> <<>>,
     kb_editor |-> <<>>, kb_save_timer |-> FALSE, slot |-> "", ok |-> TRUE,
     alive |-> TRUE]

(***************************************************************************)
(* Session records and the FileContextProvider.                            *)
(***************************************************************************)
NoSession == [exists |-> FALSE, knowledgeBase |-> <<>>, modifiedAt |-> 0]

\* Session(): a fresh record with an empty knowledge base
Session(now) == [exists |-> TRUE, knowledgeBase |-> <<>>, modifiedAt |-> now]

\* save_session stamps the caller's session object ...
Stamped(session, now) == [session EXCEPT !.modifiedAt = now]

\* a save that merges the new text into the lines already in the file
save_session_merging(st, sid, session, now) ==
    [st EXCEPT ![sid] = [Stamped(session, now) EXCEPT !.knowledgeBase =
        IF st[sid].knowledgeBase = <<>> THEN session.knowledgeBase
        ELSE st[sid].knowledgeBase \o <<"\n">> \o session.knowledgeBase]]

\* a save whose file does not depend on the session id
save_session_shared(st, sid, session, now) ==
    [s \in DOMAIN st |->
        IF s = sid \/ st[s].exists THEN Stamped(session, now) ELSE st[s]]

\* ... and replaces the whole session file with it
save_session(st, sid, session, now) ==
    [st EXCEPT ![sid] = Stamped(session, now)]

\* an exception: its class, its message, and the text of the exception the
\* message was formatted from (empty when the message is a fixed one)
NoError == [type |-> "", message |-> "", cause |-> ""]
Error(type, message) == [type |-> type, message |-> message, cause |-> ""]

Exhausted == Error("ProviderError", "LLM failed after trying all variants")
RequestFailed == Error("ProviderError", "request failed")
NoProlog == Error("ProviderError", "LLM failed to generate valid Prolog code.")
NotFound == Error("NotFoundError", "Session not found.")
Invalid == Error("ValidationError", "KB validation failed")

(***************************************************************************)
(* Python values the logic engine hands back and run_query shapes: None,   *)
(* the booleans, a string, or a list whose items are strings (key empty)   *)
(* or one-variable binding dicts.                                          *)
(***************************************************************************)
Unset == [kind |-> "unset", text |-> <<>>, items |-> <<>>]
PyNone == [kind |-> "None", text |-> <<>>, items |-> <<>>]
PyFalse == [kind |-> "False", text |-> <<>>, items |-> <<>>]
PyTrue == [kind |-> "True", text |-> <<>>, items |-> <<>>]
PyStr(text) == [kind |-> "str", text |-> text, items |-> <<>>]
PyList(items) == [kind |-> "list", text |-> <<>>, items |-> items]

Item(val) == [key |-> <<>>, val |-> val]
Binding(key, val) == [key |-> key, val |-> val]

IdleCall ==
    [op |-> "", sid |-> 0, text |-> "", body |-> <<>>, pc |-> "idle",
     loaded |-> NoSession, session |-> NoSession,
     template |-> "", variant |-> 0, log |-> <<>>,
     intent_raw |-> <<>>, intent |-> "", llm_response |-> <<>>,
     new_clauses |-> <<>>, added |-> <<>>,
     saved |-> 0, abandoned |-> FALSE, error |-> NoError,
     schema |-> <<>>, prolog_query |-> <<>>, thread |-> "none",
     raw |-> Unset, result |-> Unset, result_for_llm |-> Unset,
     result_json |-> <<>>, answer |-> <<>>, validation |-> "",
     thrown |-> "", raised |-> NoError]

(***************************************************************************)
(* MCRService._run_prompt_chain: one turn of the loop over the variants,   *)
(* for variant i of n and the backend's answer r.                          *)
(***************************************************************************)
Blank(r) == r.ok /\ strip(r.content) = <<>>

\* a chain that returns the backend's answer without trimming it
_run_prompt_chain_untrimmed(n, i, r) ==
    IF ~r.ok THEN [kind |-> "raise", value |-> <<>>, error |-> RequestFailed]
    ELSE IF r.content # <<>> /\ strip(r.content) # <<>>
         THEN [kind |-> "return", value |-> r.content, error |-> NoError]
    ELSE IF i < n THEN [kind |-> "next", value |-> <<>>, error |-> NoError]
    ELSE [kind |-> "raise", value |-> <<>>, error |-> Exhausted]

\* a chain that gives up at the first blank answer
_run_prompt_chain_gives_up(n, i, r) ==
    IF ~r.ok THEN [kind |-> "raise", value |-> <<>>, error |-> RequestFailed]
    ELSE IF r.content # <<>> /\ strip(r.content) # <<>>
         THEN [kind |-> "return", value |-> strip(r.content), error |-> NoError]
    ELSE [kind |-> "raise", value |-> <<>>, error |-> Exhausted]

_run_prompt_chain(n, i, r) ==
    IF ~r.ok THEN [kind |-> "raise", value |-> <<>>, error |-> RequestFailed]
    ELSE IF r.content # <<>> /\ strip(r.content) # <<>>
         THEN [kind |-> "return", value |-> strip(r.content), error |-> NoError]
    ELSE IF i < n THEN [kind |-> "next", value |-> <<>>, error |-> NoError]
    ELSE [kind |-> "raise", value |-> <<>>, error |-> Exhausted]

\* the entries of a call's backend log that belong to one template
LogOf(c, template) == SelectSeq(calls[c].log, LAMBDA e : e.template = template)

(***************************************************************************)
(* MCRService.assert_into_session after the translation chain returned:    *)
(* normalize, deduplicate against the loaded KB, append, decide on a save. *)
(***************************************************************************)
Lines(kb) == {splitlines(kb)[k] : k \in 1..Len(splitlines(kb))}
StrippedLines(kb) == {strip(l) : l \in Lines(kb)}

Dedup(kb, new_clauses) ==
    SelectSeq(new_clauses, LAMBDA c : c \notin StrippedLines(kb))

\* an append that keeps only the new clauses
AppendClauses_overwrite(kb, added) == join(added)

AppendClauses(kb, added) == strip(kb \o NL \o join(added))

Intent(intent_raw) ==
    IF Contains(upper(intent_raw), <<"R", "U", "L", "E">>) THEN "RULE" ELSE "FACT"

PromptName(intent) == IF intent = "RULE" THEN "NL_TO_RULES" ELSE "NL_TO_FACTS"

\* an assert that answers with an empty added-list when nothing was translated
AssertOutcome_unchecked(kb, llm_response) ==
    LET new_clauses == _extract_prolog(llm_response)
        added == Dedup(kb, new_clauses)
    IN  IF added # <<>>
        THEN [raise |-> FALSE, new_clauses |-> new_clauses, added |-> added,
              knowledgeBase |-> AppendClauses(kb, added), save |-> TRUE]
        ELSE [raise |-> FALSE, new_clauses |-> new_clauses, added |-> added,
              knowledgeBase |-> kb, save |-> FALSE]

\* an assert that saves the session whether or not a clause was added
AssertOutcome_always_saves(kb, llm_response) ==
    LET new_clauses == _extract_prolog(llm_response)
        added == Dedup(kb, new_clauses)
    IN  IF new_clauses = <<>>
        THEN [raise |-> TRUE, new_clauses |-> new_clauses, added |-> <<>>,
              knowledgeBase |-> kb, save |-> FALSE]
        ELSE [raise |-> FALSE, new_clauses |-> new_clauses, added |-> added,
              knowledgeBase |-> AppendClauses(kb, added), save |-> TRUE]

\* what the call does with the translation: raise, or answer with or without a save
AssertOutcome(kb, llm_response) ==
    LET new_clauses == _extract_prolog(llm_response)
        added == Dedup(kb, new_clauses)
    IN  IF new_clauses = <<>>
        THEN [raise |-> TRUE, new_clauses |-> new_clauses, added |-> <<>>,
              knowledgeBase |-> kb, save |-> FALSE]
        ELSE IF added # <<>>
        THEN [raise |-> FALSE, new_clauses |-> new_clauses, added |-> added,
              knowledgeBase |-> AppendClauses(kb, added), save |-> TRUE]
        ELSE [raise |-> FALSE, new_clauses |-> new_clauses, added |-> added,
              knowledgeBase |-> kb, save |-> FALSE]

(***************************************************************************)
(* MCRService._get_kb_schema: per trimmed line that is neither blank nor a *)
(* comment, a name/arity item when the predicate pattern matches at the    *)
(* start of the line, and the lowercase tokens of every parenthesized      *)
(* group of identifier characters, commas and whitespace; the items are    *)
(* collected in a set and returned as a sorted list.                       *)
(***************************************************************************)
\* the characters of the model in code point order
Ascii ==
    <<"\n", " ", "\"", "%", "(", ")", ",", "-", ".", "/",
      "0", "1", "2", "3", "4", "5", "6", "7", "8", "9", ":",
      "A", "C", "E", "F", "L", "R", "T", "U", "X", "[", "]", "_",
      "a", "b", "n", "o", "p", "q", "{", "}">>

ord(c) == CHOOSE i \in 1..Len(Ascii) : Ascii[i] = c

\* s < t on Python strings
RECURSIVE StrLess(_, _)
StrLess(s, t) ==
    IF t = <<>> THEN FALSE
    ELSE IF s = <<>> THEN TRUE
    ELSE IF s[1] # t[1] THEN ord(s[1]) < ord(t[1])
    ELSE StrLess(Tail(s), Tail(t))

\* sorted(list(S)) for a set of strings
RECURSIVE sorted(_)
sorted(S) ==
    IF S = {} THEN <<>>
    ELSE LET m == CHOOSE x \in S : \A y \in S \ {x} : StrLess(x, y)
         IN  <<m>> \o sorted(S \ {m})

\* str(n) for n >= 0
RECURSIVE str(_)
str(n) ==
    IF n < 10 THEN <<Ascii[11 + n]>>
    ELSE str(n \div 10) \o <<Ascii[11 + (n % 10)]>>

\* first index >= i at which needle starts, 0 when there is none
RECURSIVE find(_, _, _)
find(s, i, needle) ==
    IF i + Len(needle) - 1 > Len(s) THEN 0
    ELSE IF SubSeq(s, i, i + Len(needle) - 1) = needle THEN i
    ELSE find(s, i + 1, needle)

\* s.split(sep) for a one-character separator
RECURSIVE split(_, _)
split(s, sep) ==
    LET k == FindChar(s, 1, sep) IN
    IF k = 0 THEN <<s>>
    ELSE <<SubSeq(s, 1, k - 1)>> \o split(SubSeq(s, k + 1, Len(s)), sep)

\* group 1 of predicate_regex.match(line), <<>> when the pattern does not
\* match: a lowercase letter and identifier characters, optional
\* whitespace, then the rule separator or any one character.  When the
\* identifier runs to the end of the line the pattern gives back its last
\* character to that "any one character".
PredicateName(line) ==
    IF line = <<>> \/ line[1] \notin Lower THEN <<>>
    ELSE LET j == SkipWhile(line, 2, IdentChars)
             w == SkipWhile(line, j, Whitespace \ {"\n"})
         IN  IF w <= Len(line) \/ w > j THEN SubSeq(line, 1, j - 1)
             ELSE IF Len(line) >= 2 THEN SubSeq(line, 1, Len(line) - 1)
             ELSE <<>>

\* line.split(':-')[0]
ClauseHead(line) ==
    LET k == find(line, 1, <<":", "-">>) IN
    IF k = 0 THEN line ELSE SubSeq(line, 1, k - 1)

\* 0 if '()' in head else head.count(',') + 1
Arity(head) ==
    IF Contains(head, <<"(", ")">>) THEN 0
    ELSE Cardinality({k \in 1..Len(head) : head[k] = ","}) + 1

Signature(name, arity) == name \o <<"/">> \o str(arity)

AtomChars == IdentChars \cup Whitespace \cup {","}

\* group 1 of every match of atom_regex.finditer(line), scanning from i
RECURSIVE AtomGroups(_, _)
AtomGroups(line, i) ==
    IF i > Len(line) THEN {}
    ELSE IF line[i] # "(" THEN AtomGroups(line, i + 1)
    ELSE LET k == SkipWhile(line, i + 1, AtomChars) IN
         IF k > i + 1 /\ k <= Len(line) /\ line[k] = ")"
         THEN {SubSeq(line, i + 1, k - 1)} \cup AtomGroups(line, k + 1)
         ELSE AtomGroups(line, i + 1)

Atoms(line) ==
    LET tokens == UNION { {strip(split(g, ",")[k]) : k \in 1..Len(split(g, ","))}
                          : g \in AtomGroups(line, 1) }
    IN  {a \in tokens : a # <<>> /\ a[1] \in Lower}

\* the name/arity item of a trimmed line
SignaturesOfLine(line) ==
    IF PredicateName(line) = <<>> THEN {}
    ELSE {Signature(PredicateName(line), Arity(ClauseHead(line)))}

\* what one line of the KB adds to schema_items
SchemaItems(rawline) ==
    LET line == strip(rawline) IN
    IF line = <<>> \/ line[1] = "%" THEN {}
    ELSE SignaturesOfLine(line) \cup Atoms(line)

\* an extractor that lists the items of the last line after the others
_get_kb_schema_appending(kb_string) ==
    LET lines == splitlines(kb_string) IN
    IF lines = <<>> THEN <<>>
    ELSE sorted(UNION {SchemaItems(lines[k]) : k \in 1..(Len(lines) - 1)})
            \o sorted(SchemaItems(lines[Len(lines)]))

_get_kb_schema(kb_string) ==
    sorted(UNION {SchemaItems(l) : l \in Lines(kb_string)})

(***************************************************************************)
(* The state machine.  store is the sessions directory, clock the time of  *)
(* the last save, calls the HTTP requests (idle, suspended at a backend    *)
(* call, done or failed), prompts the number of variants of each template. *)
(***************************************************************************)
\* PromptManager._PROMPTS: every template ships with one variant.  No template
\* the service names has an empty list, so the "No prompt templates found"
\* error of _run_prompt_chain cannot occur.
ShippedPrompts == [t \in Templates |-> 1]

Init ==
    /\ store = [s \in Sids |-> NoSession]
    /\ clock = 0
    /\ calls = [c \in Calls |-> IdleCall]
    /\ prompts = ShippedPrompts
    /\ container = DependencyContainer
    /\ gui = UIState

\* request slots are taken in order
Free(c) == calls[c].pc = "idle" /\ \A d \in 1..(c - 1) : calls[d].pc # "idle"

\* POST /sessions
create_session ==
    \E sid \in Sids :
        /\ ~store[sid].exists
        /\ \A t \in 1..(sid - 1) : store[t].exists
        /\ clock' = clock + 1
        /\ store' = save_session(store, sid, Session(clock), clock + 1)
        /\ UNCHANGED <<calls, prompts, container, gui>>

\* an assert that stamps the session file as soon as it has loaded it
assert_into_session_touching(c) ==
    \E sid \in Sids, text \in Texts :
        /\ Free(c)
        /\ IF ~store[sid].exists
           THEN /\ calls' = [calls EXCEPT ![c] =
                      [IdleCall EXCEPT !.op = "assert", !.sid = sid, !.text = text,
                                       !.pc = "failed", !.error = NotFound]]
                /\ UNCHANGED <<store, clock>>
           ELSE /\ clock' = clock + 1
                /\ store' = save_session(store, sid, store[sid], clock + 1)
                /\ calls' = [calls EXCEPT ![c] =
                      [IdleCall EXCEPT !.op = "assert", !.sid = sid, !.text = text,
                                       !.pc = "chain", !.loaded = store[sid],
                                       !.session = Stamped(store[sid], clock + 1),
                                       !.saved = 1,
                                       !.template = "INTENT_CLASSIFIER",
                                       !.variant = 1]]
        /\ UNCHANGED <<prompts, container, gui>>

\* POST /sessions/{id}/assert, up to the first backend call
assert_into_session(c) ==
    \E sid \in Sids, text \in Texts :
        /\ Free(c)
        /\ calls' = [calls EXCEPT ![c] =
              IF ~store[sid].exists
              THEN [IdleCall EXCEPT !.op = "assert", !.sid = sid, !.text = text,
                                    !.pc = "failed", !.error = NotFound]
              ELSE [IdleCall EXCEPT !.op = "assert", !.sid = sid, !.text = text,
                                    !.pc = "chain", !.loaded = store[sid],
                                    !.session = store[sid],
                                    !.template = "INTENT_CLASSIFIER", !.variant = 1]]
        /\ UNCHANGED <<store, clock, prompts, container, gui>>

Logged(call, r) ==
    Append(call.log, [template |-> call.template, variant |-> call.variant, reply |-> r])

\* the backend answers a variant of the intent chain
intent_reply_from(c, replies) ==
    /\ calls[c].pc = "chain"
    /\ calls[c].template = "INTENT_CLASSIFIER"
    /\ \E r \in replies :
        LET call == calls[c]
            o == _run_prompt_chain(prompts[call.template], call.variant, r)
            logged == [call EXCEPT !.log = Logged(call, r)]
        IN  calls' = [calls EXCEPT ![c] =
              CASE o.kind = "raise" ->
                     [logged EXCEPT !.pc = "failed", !.error = o.error]
                [] o.kind = "next" ->
                     [logged EXCEPT !.variant = call.variant + 1]
                [] OTHER ->
                     [logged EXCEPT !.intent_raw = o.value,
                                    !.intent = Intent(o.value),
                                    !.template = PromptName(Intent(o.value)),
                                    !.variant = 1]]
    /\ UNCHANGED <<store, clock, prompts, container, gui>>

intent_reply(c) == intent_reply_from(c, IntentReplies)

\* the backend answers a variant of the translation chain; on a usable
\* answer the rest of assert_into_session runs to its end
translate_reply_from(c, replies) ==
    /\ calls[c].pc = "chain"
    /\ calls[c].template \in {"NL_TO_FACTS", "NL_TO_RULES"}
    /\ \E r \in replies :
        LET call == calls[c]
            o == _run_prompt_chain(prompts[call.template], call.variant, r)
            logged == [call EXCEPT !.log = Logged(call, r)]
            a == AssertOutcome(call.session.knowledgeBase, o.value)
            got == [logged EXCEPT !.llm_response = o.value,
                                  !.new_clauses = a.new_clauses]
        IN  CASE o.kind = "raise" ->
                   /\ calls' = [calls EXCEPT ![c] =
                         [logged EXCEPT !.pc = "failed", !.error = o.error]]
                   /\ UNCHANGED <<store, clock>>
              [] o.kind = "next" ->
                   /\ calls' = [calls EXCEPT ![c] =
                         [logged EXCEPT !.variant = call.variant + 1]]
                   /\ UNCHANGED <<store, clock>>
              [] o.kind = "return" /\ a.raise ->
                   /\ calls' = [calls EXCEPT ![c] =
                         [got EXCEPT !.pc = "failed", !.error = NoProlog]]
                   /\ UNCHANGED <<store, clock>>
              [] o.kind = "return" /\ ~a.raise /\ a.save ->
                   /\ clock' = clock + 1
                   /\ store' = save_session(store, call.sid,
                         [call.session EXCEPT !.knowledgeBase = a.knowledgeBase],
                         clock + 1)
                   /\ calls' = [calls EXCEPT ![c] =
                         [got EXCEPT !.pc = "done", !.added = a.added,
                                     !.saved = call.saved + 1,
                                     !.session = Stamped(
                                        [call.session EXCEPT
                                            !.knowledgeBase = a.knowledgeBase],
                                        clock + 1)]]
              [] OTHER ->
                   /\ calls' = [calls EXCEPT ![c] =
                         [got EXCEPT !.pc = "done", !.added = a.added]]
                   /\ UNCHANGED <<store, clock>>
    /\ UNCHANGED <<prompts, container, gui>>

translate_reply(c) == translate_reply_from(c, TranslateReplies)

\* a replacement that saves the submitted text before looking at the verdict
update_kb_unvalidated(c) ==
    \E sid \in Sids, kb \in KbTexts, valid \in BOOLEAN :
        LET begun == [IdleCall EXCEPT !.op = "update_kb", !.sid = sid, !.body = kb,
                                      !.loaded = store[sid], !.session = store[sid]]
            checked == [begun EXCEPT !.validation =
                                        IF valid THEN "valid" ELSE "invalid"]
        IN  /\ Free(c)
            /\ IF ~store[sid].exists
               THEN /\ calls' = [calls EXCEPT ![c] =
                          [begun EXCEPT !.pc = "failed", !.error = NotFound]]
                    /\ UNCHANGED <<store, clock>>
               ELSE /\ clock' = clock + 1
                    /\ store' = save_session(store, sid,
                          [store[sid] EXCEPT !.knowledgeBase = kb], clock + 1)
                    /\ calls' = [calls EXCEPT ![c] =
                          IF valid
                          THEN [checked EXCEPT !.pc = "done", !.saved = 1,
                                   !.session = Stamped(
                                      [store[sid] EXCEPT !.knowledgeBase = kb],
                                      clock + 1)]
                          ELSE [checked EXCEPT !.pc = "failed", !.error = Invalid,
                                   !.saved = 1,
                                   !.session = Stamped(
                                      [store[sid] EXCEPT !.knowledgeBase = kb],
                                      clock + 1)]]
            /\ UNCHANGED <<prompts, container, gui>>

\* PUT /sessions/{id}/kb: load, validate with the engine, save; no suspension.
\* The verdict of the engine's parser on the submitted text is an input.
update_kb(c) ==
    \E sid \in Sids, kb \in KbTexts, valid \in BOOLEAN :
        LET begun == [IdleCall EXCEPT !.op = "update_kb", !.sid = sid, !.body = kb,
                                      !.loaded = store[sid], !.session = store[sid]]
            checked == [begun EXCEPT !.validation =
                                        IF valid THEN "valid" ELSE "invalid"]
        IN  /\ Free(c)
            /\ IF ~store[sid].exists
               THEN /\ calls' = [calls EXCEPT ![c] =
                          [begun EXCEPT !.pc = "failed", !.error = NotFound]]
                    /\ UNCHANGED <<store, clock>>
               ELSE IF ~valid
               THEN /\ calls' = [calls EXCEPT ![c] =
                          [checked EXCEPT !.pc = "failed", !.error = Invalid]]
                    /\ UNCHANGED <<store, clock>>
               ELSE /\ clock' = clock + 1
                    /\ store' = save_session(store, sid,
                          [store[sid] EXCEPT !.knowledgeBase = kb], clock + 1)
                    /\ calls' = [calls EXCEPT ![c] =
                          [checked EXCEPT !.pc = "done", !.saved = 1,
                                          !.session = Stamped(
                                             [store[sid] EXCEPT !.knowledgeBase = kb],
                                             clock + 1)]]
            /\ UNCHANGED <<prompts, container, gui>>

\* MCRClient._request gives up (timeout=60) while the server awaits the backend
abandon(c) ==
    /\ calls[c].pc = "chain"
    /\ ~calls[c].abandoned
    /\ calls' = [calls EXCEPT ![c].abandoned = TRUE]
    /\ UNCHANGED <<store, clock, prompts, container, gui>>

Next ==
    \/ create_session
    \/ \E c \in Calls : assert_into_session(c)
    \/ \E c \in Calls : intent_reply(c)
    \/ \E c \in Calls : translate_reply(c)
    \/ \E c \in Calls : update_kb(c)

Spec == Init /\ [][Next]_vars

(***************************************************************************)
(* One assert request on its own, which its client may abandon, run        *)
(* against every prompt table with one to MaxVariants variants per         *)
(* template.                                                               *)
(***************************************************************************)
InitChain ==
    /\ store = [s \in Sids |-> NoSession]
    /\ clock = 0
    /\ calls = [c \in Calls |-> IdleCall]
    /\ prompts \in [Templates -> 1..MaxVariants]
    /\ container = DependencyContainer
    /\ gui = UIState

NextChain ==
    \/ create_session
    \/ assert_into_session(1)
    \/ intent_reply(1)
    \/ translate_reply(1)
    \/ abandon(1)

SpecChain == InitChain /\ [][NextChain]_vars

(***************************************************************************)
(* MCRService.run_query and PythologReasonProvider.query.  A query call    *)
(* suspends at the NL_TO_QUERY chain, at the engine evaluation (a worker   *)
(* thread awaited under wait_for) and at the RESULT_TO_NL chain.           *)
(***************************************************************************)
QueryTemplates == {"NL_TO_QUERY", "RESULT_TO_NL"}

\* PromptManager._PROMPTS with its query templates, one variant each
ShippedQueryPrompts == [t \in Templates \cup QueryTemplates |-> 1]

NoQuery == Error("ProviderError", "LLM failed to generate a valid Prolog query.")
TimedOut == Error("ProviderError", "Reasoning query timed out")

\* str(e) of the exceptions the engine raises while it loads a KB text or
\* evaluates a goal
EngineErrors == {"list index out of range", "maximum recursion depth exceeded"}

\* a dispatcher error that names no cause
ReasoningFailed_generic(e) == Error("ProviderError", "Pytholog reasoning error")

\* ProviderError(f"Pytholog reasoning error: {e}")
ReasoningFailed(e) ==
    [Error("ProviderError", "Pytholog reasoning error: {e}") EXCEPT !.cause = e]

QueryReplies ==
    { Reply(<<>>),
      Reply(<<".">>),
      Reply(<<"p", "(", "a", ")", ".">>),
      Failure }

ExplainReplies ==
    { Reply(<<" ">>),
      Reply(<<"n", "o">>) }

No == Item(<<"N", "o">>)
Yes == Item(<<"Y", "e", "s">>)

\* what kb.query can hand back to the dispatcher
EngineOutcomes ==
    { PyNone, PyFalse, PyTrue, PyList(<<>>), PyList(<<No>>),
      PyList(<<Binding(<<"X">>, <<"a">>)>>) }

\* a strip that removes one trailing terminator only
rstrip_once(s) == IF s # <<>> /\ s[Len(s)] = "." THEN SubSeq(s, 1, Len(s) - 1) ELSE s

\* str.rstrip('.')
rstrip(s) == SubSeq(s, 1, SkipBack(s, Len(s), {"."}))

\* not value
Falsy(value) ==
    \/ value.kind \in {"None", "False"}
    \/ value.kind = "str" /\ value.text = <<>>
    \/ value.kind = "list" /\ value.items = <<>>

\* a dispatcher that returns what the engine handed back as it is
OrEmptyList_kept(value) == value

\* value or []
OrEmptyList(value) == IF Falsy(value) THEN PyList(<<>>) ELSE value

\* a shaping that takes every result that is not a binding list for true
result_for_llm_affirming(result) ==
    IF result = PyTrue \/ Falsy(result) THEN PyStr(<<"t", "r", "u", "e">>)
    ELSE IF result = PyList(<<No>>) THEN PyStr(<<"N", "o">>)
    ELSE result

\* a shaping that shows the explanation step the result as it is
result_for_llm_unshaped(result) == result

\* "true" if result is True else ("No" if not result or result == ['No'] else result)
result_for_llm(result) ==
    IF result = PyTrue THEN PyStr(<<"t", "r", "u", "e">>)
    ELSE IF Falsy(result) \/ result = PyList(<<No>>) THEN PyStr(<<"N", "o">>)
    ELSE result

Quoted(text) == <<"\"">> \o text \o <<"\"">>

dumps_item(item) ==
    IF item.key = <<>> THEN Quoted(item.val)
    ELSE <<"{">> \o Quoted(item.key) \o <<":", " ">> \o Quoted(item.val) \o <<"}">>

RECURSIVE dumps_items(_)
dumps_items(items) ==
    IF items = <<>> THEN <<>>
    ELSE IF Len(items) = 1 THEN dumps_item(items[1])
    ELSE dumps_item(items[1]) \o <<",", " ">> \o dumps_items(Tail(items))

\* json.dumps(value)
dumps(value) ==
    CASE value.kind = "None" -> <<"n", "u", "l", "l">>
      [] value.kind = "True" -> <<"t", "r", "u", "e">>
      [] value.kind = "False" -> <<"f", "a", "l", "s", "e">>
      [] value.kind = "str" -> Quoted(value.text)
      [] OTHER -> <<"[">> \o dumps_items(value.items) \o <<"]">>

\* a load that creates the session when there is none
run_query_creating(c) ==
    \E sid \in Sids, text \in Texts :
        /\ Free(c)
        /\ calls' = [calls EXCEPT ![c] =
              [IdleCall EXCEPT !.op = "query", !.sid = sid, !.text = text,
                               !.pc = "chain",
                               !.loaded = IF store[sid].exists THEN store[sid]
                                          ELSE Stamped(Session(clock), clock + 1),
                               !.session = IF store[sid].exists THEN store[sid]
                                           ELSE Stamped(Session(clock), clock + 1),
                               !.schema = _get_kb_schema(store[sid].knowledgeBase),
                               !.template = "NL_TO_QUERY", !.variant = 1]]
        /\ store' = IF store[sid].exists THEN store
                    ELSE save_session(store, sid, Session(clock), clock + 1)
        /\ clock' = IF store[sid].exists THEN clock ELSE clock + 1
        /\ UNCHANGED <<prompts, container, gui>>

\* a load that answers from the snapshot the first request took of the session
run_query_cached(c) ==
    \E sid \in Sids, text \in Texts :
        LET cached == IF calls[1].pc # "idle" /\ calls[1].sid = sid
                      THEN calls[1].loaded ELSE store[sid]
        IN  /\ Free(c)
            /\ calls' = [calls EXCEPT ![c] =
                  IF ~store[sid].exists
                  THEN [IdleCall EXCEPT !.op = "query", !.sid = sid, !.text = text,
                                        !.pc = "failed", !.error = NotFound]
                  ELSE [IdleCall EXCEPT !.op = "query", !.sid = sid, !.text = text,
                                        !.pc = "chain", !.loaded = cached,
                                        !.session = cached,
                                        !.schema = _get_kb_schema(cached.knowledgeBase),
                                        !.template = "NL_TO_QUERY", !.variant = 1]]
            /\ UNCHANGED <<store, clock, prompts, container, gui>>

\* POST /sessions/{id}/query, up to the first backend call
run_query(c) ==
    \E sid \in Sids, text \in Texts :
        /\ Free(c)
        /\ calls' = [calls EXCEPT ![c] =
              IF ~store[sid].exists
              THEN [IdleCall EXCEPT !.op = "query", !.sid = sid, !.text = text,
                                    !.pc = "failed", !.error = NotFound]
              ELSE [IdleCall EXCEPT !.op = "query", !.sid = sid, !.text = text,
                                    !.pc = "chain", !.loaded = store[sid],
                                    !.session = store[sid],
                                    !.schema = _get_kb_schema(store[sid].knowledgeBase),
                                    !.template = "NL_TO_QUERY", !.variant = 1]]
        /\ UNCHANGED <<store, clock, prompts, container, gui>>

\* the backend answers a variant of the NL_TO_QUERY chain; on a usable goal
\* the dispatcher loads the KB into a fresh engine (which may raise) and
\* starts the evaluation on a worker thread
query_reply_from(c, replies) ==
    /\ calls[c].pc = "chain"
    /\ calls[c].template = "NL_TO_QUERY"
    /\ \E r \in replies :
        LET call == calls[c]
            o == _run_prompt_chain(prompts[call.template], call.variant, r)
            logged == [call EXCEPT !.log = Logged(call, r)]
            got == [logged EXCEPT !.llm_response = o.value,
                                  !.prolog_query = rstrip(o.value)]
        IN  CASE o.kind = "raise" ->
                   calls' = [calls EXCEPT ![c] =
                       [logged EXCEPT !.pc = "failed", !.error = o.error]]
              [] o.kind = "next" ->
                   calls' = [calls EXCEPT ![c] =
                       [logged EXCEPT !.variant = call.variant + 1]]
              [] o.kind = "return" /\ rstrip(o.value) = <<>> ->
                   calls' = [calls EXCEPT ![c] =
                       [got EXCEPT !.pc = "failed", !.error = NoQuery]]
              [] OTHER ->
                   \/ \E e \in EngineErrors :
                         calls' = [calls EXCEPT ![c] =
                             [got EXCEPT !.pc = "failed", !.thrown = e,
                                         !.raised = ReasoningFailed(e),
                                         !.error = ReasoningFailed(e)]]
                   \/ calls' = [calls EXCEPT ![c] =
                         [got EXCEPT !.pc = "engine", !.thread = "running"]]
    /\ UNCHANGED <<store, clock, prompts, container, gui>>

query_reply(c) == query_reply_from(c, QueryReplies)

\* a dispatcher that answers with the empty outcome when the timer fires
timeout_silent(c) ==
    /\ calls[c].pc = "engine"
    /\ calls[c].thread = "running"
    /\ calls' = [calls EXCEPT ![c] =
          [calls[c] EXCEPT !.pc = "chain", !.result = PyList(<<>>),
                           !.result_for_llm = result_for_llm(PyList(<<>>)),
                           !.result_json = dumps(result_for_llm(PyList(<<>>))),
                           !.template = "RESULT_TO_NL", !.variant = 1]]
    /\ UNCHANGED <<store, clock, prompts, container, gui>>

\* wait_for's timer fires while the evaluation is still running: the
\* dispatcher raises its timeout error; the worker thread is left running
timeout(c) ==
    /\ calls[c].pc = "engine"
    /\ calls[c].thread = "running"
    /\ calls' = [calls EXCEPT ![c] =
          [calls[c] EXCEPT !.pc = "failed", !.raised = TimedOut,
                           !.error = TimedOut]]
    /\ UNCHANGED <<store, clock, prompts, container, gui>>

\* a run_query that catches the dispatcher's error and explains an empty
\* outcome instead
engine_reply_downgrading(c, outcomes) ==
    /\ calls[c].pc = "engine"
    /\ calls[c].thread = "running"
    /\ \/ \E e \in EngineErrors :
             calls' = [calls EXCEPT ![c] =
                 [calls[c] EXCEPT
                     !.thread = "ended", !.pc = "chain",
                     !.thrown = e,
                     !.raised = ReasoningFailed(e),
                     !.result = PyList(<<>>),
                     !.result_for_llm = result_for_llm(PyList(<<>>)),
                     !.result_json = dumps(result_for_llm(PyList(<<>>))),
                     !.template = "RESULT_TO_NL", !.variant = 1]]
       \/ \E outcome \in outcomes :
             calls' = [calls EXCEPT ![c] =
                 [calls[c] EXCEPT
                     !.thread = "ended", !.pc = "chain",
                     !.raw = outcome,
                     !.result = OrEmptyList(outcome),
                     !.result_for_llm = result_for_llm(OrEmptyList(outcome)),
                     !.result_json = dumps(result_for_llm(OrEmptyList(outcome))),
                     !.template = "RESULT_TO_NL", !.variant = 1]]
    /\ UNCHANGED <<store, clock, prompts, container, gui>>

\* the evaluation ends before the timer fires: the dispatcher returns the
\* outcome (or raises on an engine error) and run_query shapes it for the
\* RESULT_TO_NL chain
engine_reply_from(c, outcomes) ==
    /\ calls[c].pc = "engine"
    /\ calls[c].thread = "running"
    /\ \/ \E e \in EngineErrors :
             calls' = [calls EXCEPT ![c] =
                 [calls[c] EXCEPT !.thread = "ended", !.pc = "failed",
                                  !.thrown = e,
                                  !.raised = ReasoningFailed(e),
                                  !.error = ReasoningFailed(e)]]
       \/ \E outcome \in outcomes :
             calls' = [calls EXCEPT ![c] =
                 [calls[c] EXCEPT
                     !.thread = "ended", !.pc = "chain",
                     !.raw = outcome,
                     !.result = OrEmptyList(outcome),
                     !.result_for_llm = result_for_llm(OrEmptyList(outcome)),
                     !.result_json = dumps(result_for_llm(OrEmptyList(outcome))),
                     !.template = "RESULT_TO_NL", !.variant = 1]]
    /\ UNCHANGED <<store, clock, prompts, container, gui>>

engine_reply(c) == engine_reply_from(c, EngineOutcomes)

\* the evaluation ends on its worker thread after the dispatcher timed out
thread_ends(c) ==
    /\ calls[c].pc # "engine"
    /\ calls[c].thread = "running"
    /\ calls' = [calls EXCEPT ![c].thread = "ended"]
    /\ UNCHANGED <<store, clock, prompts, container, gui>>

\* a query that saves the session it loaded before it answers
explain_reply_saving(c) ==
    /\ calls[c].pc = "chain"
    /\ calls[c].template = "RESULT_TO_NL"
    /\ \E r \in ExplainReplies :
        LET call == calls[c]
            o == _run_prompt_chain(prompts[call.template], call.variant, r)
            logged == [call EXCEPT !.log = Logged(call, r)]
        IN  CASE o.kind = "raise" ->
                   /\ calls' = [calls EXCEPT ![c] =
                         [logged EXCEPT !.pc = "failed", !.error = o.error]]
                   /\ UNCHANGED <<store, clock>>
              [] o.kind = "next" ->
                   /\ calls' = [calls EXCEPT ![c] =
                         [logged EXCEPT !.variant = call.variant + 1]]
                   /\ UNCHANGED <<store, clock>>
              [] OTHER ->
                   /\ calls' = [calls EXCEPT ![c] =
                         [logged EXCEPT !.pc = "done", !.answer = o.value,
                                        !.saved = call.saved + 1]]
                   /\ clock' = clock + 1
                   /\ store' = save_session(store, call.sid, call.session, clock + 1)
    /\ UNCHANGED <<prompts, container, gui>>

\* the backend answers a variant of the RESULT_TO_NL chain
explain_reply(c) ==
    /\ calls[c].pc = "chain"
    /\ calls[c].template = "RESULT_TO_NL"
    /\ \E r \in ExplainReplies :
        LET call == calls[c]
            o == _run_prompt_chain(prompts[call.template], call.variant, r)
            logged == [call EXCEPT !.log = Logged(call, r)]
        IN  calls' = [calls EXCEPT ![c] =
              CASE o.kind = "raise" ->
                     [logged EXCEPT !.pc = "failed", !.error = o.error]
                [] o.kind = "next" ->
                     [logged EXCEPT !.variant = call.variant + 1]
                [] OTHER ->
                     [logged EXCEPT !.pc = "done", !.answer = o.value]]
    /\ UNCHANGED <<store, clock, prompts, container, gui>>

(***************************************************************************)
(* The reasoning dispatcher under query requests alone.  The event loop    *)
(* runs wait_for's timer callback, so a timeout that stays enabled fires.  *)
(***************************************************************************)
InitReason ==
    /\ store = [s \in Sids |-> NoSession]
    /\ clock = 0
    /\ calls = [c \in Calls |-> IdleCall]
    /\ prompts = ShippedQueryPrompts
    /\ container = DependencyContainer
    /\ gui = UIState

NextReason ==
    \/ create_session
    \/ \E c \in Calls : run_query(c)
    \/ \E c \in Calls : query_reply(c)
    \/ \E c \in Calls : engine_reply(c)
    \/ \E c \in Calls : timeout(c)
    \/ \E c \in Calls : thread_ends(c)
    \/ \E c \in Calls : explain_reply(c)

SpecReason ==
    InitReason /\ [][NextReason]_vars /\ \A c \in Calls : WF_vars(timeout(c))

(***************************************************************************)
(* The three session operations side by side: the first request slot runs  *)
(* an assert, the last one a query, any slot a replacement.  The sessions  *)
(* directory outlives the server process: it starts with one session file  *)
(* kept from an earlier run, which no request of this run names.           *)
(***************************************************************************)
Kept == 0

InitQuery ==
    /\ \E kb \in KbTexts :
          store = [s \in Sids \cup {Kept} |->
                     IF s = Kept
                     THEN [exists |-> TRUE, knowledgeBase |-> kb, modifiedAt |-> 0]
                     ELSE NoSession]
    /\ clock = 0
    /\ calls = [c \in Calls |-> IdleCall]
    /\ prompts = ShippedQueryPrompts
    /\ container = DependencyContainer
    /\ gui = UIState

NextQuery ==
    \/ create_session
    \/ assert_into_session(1)
    \/ intent_reply(1)
    \/ translate_reply(1)
    \/ \E c \in Calls : update_kb(c)
    \/ run_query(MaxCalls)
    \/ query_reply(MaxCalls)
    \/ engine_reply(MaxCalls)
    \/ timeout(MaxCalls)
    \/ thread_ends(MaxCalls)
    \/ explain_reply(MaxCalls)

SpecQuery == InitQuery /\ [][NextQuery]_vars

(***************************************************************************)
(* The clause normalizer on its own: an assert whose translation chain has *)
(* returned a text (trimmed and non-blank, as the chain returns it) of at  *)
(* most MaxLen characters, and the statement that normalizes it.           *)
(***************************************************************************)
NormalizerChars == {"p", "(", ")", ".", "%", "\n"}

\* every text of at most n characters
TextsUpTo(n) == UNION {[1..k -> NormalizerChars] : k \in 0..n}

\* what _run_prompt_chain can return
ChainReturns == {t \in TextsUpTo(MaxLen) : t # <<>> /\ strip(t) = t}

InitNormalizer ==
    /\ store = [s \in Sids |-> Session(0)]
    /\ clock = 0
    /\ prompts = ShippedPrompts
    /\ container = DependencyContainer
    /\ gui = UIState
    /\ \E t \in ChainReturns :
          calls = [c \in Calls |->
                     IF c # 1 THEN IdleCall
                     ELSE [IdleCall EXCEPT
                              !.op = "assert", !.sid = 1, !.text = "t1",
                              !.pc = "translated",
                              !.loaded = Session(0), !.session = Session(0),
                              !.template = "NL_TO_FACTS", !.variant = 1,
                              !.llm_response = t]]

\* new_clauses = self._extract_prolog(llm_response)
normalize(c) ==
    /\ calls[c].pc = "translated"
    /\ calls' = [calls EXCEPT ![c] =
          [calls[c] EXCEPT !.pc = "normalized",
                           !.new_clauses = _extract_prolog(calls[c].llm_response)]]
    /\ UNCHANGED <<store, clock, prompts, container, gui>>

NextNormalizer == normalize(1)

SpecNormalizer == InitNormalizer /\ [][NextNormalizer]_vars

(***************************************************************************)
(* The schema extractor on its own: queries on a session whose KB text is  *)
(* any text of at most MaxLines lines drawn from SchemaLines; run_query    *)
(* extracts the schema right after the load.                               *)
(***************************************************************************)
SchemaLines ==
    { <<"p", "(", "a", ")", ".">>,
      <<"p", "(", "b", ")", ".">>,
      <<"p", "(", "a", ",", "b", ")", ".">>,
      <<"q", "(", "a", ")", " ", ":", "-", " ", "p", "(", "a", ",", "b", ")", ".">>,
      <<"%", " ", "q", "(", "b", ")">>,
      <<"R", "(", "a", ")">>,
      <<"o", "n", ".">>,
      <<"n", "o", " ", "p">>,
      <<>> }

\* the texts of exactly n lines
RECURSIVE KbsOf(_)
KbsOf(n) ==
    IF n = 1 THEN SchemaLines
    ELSE {k \o NL \o l : k \in KbsOf(n - 1), l \in SchemaLines}

SchemaKbs == {<<>>} \cup UNION {KbsOf(n) : n \in 1..MaxLines}

InitSchema ==
    /\ \E kb \in SchemaKbs :
          store = [s \in Sids |->
                     IF s = 1
                     THEN [exists |-> TRUE, knowledgeBase |-> kb, modifiedAt |-> 0]
                     ELSE NoSession]
    /\ clock = 0
    /\ calls = [c \in Calls |-> IdleCall]
    /\ prompts = ShippedQueryPrompts
    /\ container = DependencyContainer
    /\ gui = UIState

NextSchema == \E c \in Calls : run_query(c)

SpecSchema == InitSchema /\ [][NextSchema]_vars

(***************************************************************************)
(* The goal translation on its own: one query on a stored session, whose   *)
(* NL_TO_QUERY chain is answered with any text of at most MaxLen           *)
(* characters, up to the start of the evaluation.                          *)
(***************************************************************************)
GoalChars == {"p", ".", " "}

GoalReplies ==
    {Reply(t) : t \in UNION {[1..k -> GoalChars] : k \in 0..MaxLen}} \cup {Failure}

InitGoal ==
    /\ \E kb \in KbTexts :
          store = [s \in Sids |->
                     IF s = 1
                     THEN [exists |-> TRUE, knowledgeBase |-> kb, modifiedAt |-> 0]
                     ELSE NoSession]
    /\ clock = 0
    /\ calls = [c \in Calls |-> IdleCall]
    /\ prompts = ShippedQueryPrompts
    /\ container = DependencyContainer
    /\ gui = UIState

goal_reply(c) == query_reply_from(c, GoalReplies)

NextGoal ==
    \/ run_query(1)
    \/ goal_reply(1)

SpecGoal == InitGoal /\ [][NextGoal]_vars

(***************************************************************************)
(* The intent classification on its own: one assert on a stored session,   *)
(* whose INTENT_CLASSIFIER chain is answered with any text of at most      *)
(* MaxWords words.                                                         *)
(***************************************************************************)
MaxWords == 2

IntentWords == { <<"F", "A", "C", "T">>, <<"R", "U", "L", "E">>, <<"n", "o">> }

\* the texts of exactly n words, separated by one blank
RECURSIVE WordsOf(_)
WordsOf(n) ==
    IF n = 1 THEN IntentWords
    ELSE {t \o <<" ">> \o w : t \in WordsOf(n - 1), w \in IntentWords}

ClassifierReplies ==
    {Reply(t) : t \in UNION {WordsOf(n) : n \in 1..MaxWords}}
        \cup {Reply(<<" ">>), Failure}

InitIntent ==
    /\ \E kb \in {<<>>} \cup KbTexts :
          store = [s \in Sids |->
                     IF s = 1
                     THEN [exists |-> TRUE, knowledgeBase |-> kb, modifiedAt |-> 0]
                     ELSE NoSession]
    /\ clock = 0
    /\ calls = [c \in Calls |-> IdleCall]
    /\ prompts = ShippedPrompts
    /\ container = DependencyContainer
    /\ gui = UIState

classify_reply(c) == intent_reply_from(c, ClassifierReplies)

NextIntent ==
    \/ assert_into_session(1)
    \/ classify_reply(1)
    \/ translate_reply(1)

SpecIntent == InitIntent /\ [][NextIntent]_vars

(***************************************************************************)
(* Asserts followed by a query: MaxCalls assert requests and, in one more  *)
(* request slot, a query, on a session that starts with an empty KB.  The  *)
(* classifier answers FACT, the translation one of two facts or the first  *)
(* fact on two lines in a row, the goal translation one goal.              *)
(***************************************************************************)
Asker == MaxCalls + 1

FactAnswers == { Reply(<<"F", "A", "C", "T">>) }

ClauseAnswers ==
    { Reply(<<"p", "(", "a", ")", ".">>),
      Reply(<<" ", "q", "(", "b", ")", "\n">>),
      Reply(<<"p", "(", "a", ")", ".", "\n", "p", "(", "a", ")", ".">>) }

GoalAnswers == { Reply(<<"p", "(", "a", ")">>) }

InitCache ==
    /\ store = [s \in Sids |-> IF s = 1 THEN Session(0) ELSE NoSession]
    /\ clock = 0
    /\ calls = [c \in Calls \cup {Asker} |-> IdleCall]
    /\ prompts = ShippedQueryPrompts
    /\ container = DependencyContainer
    /\ gui = UIState

fact_reply(c) == intent_reply_from(c, FactAnswers)
clause_reply(c) == translate_reply_from(c, ClauseAnswers)
asked_reply(c) == query_reply_from(c, GoalAnswers)

NextCache ==
    \/ \E c \in Calls : assert_into_session(c)
    \/ \E c \in Calls : fact_reply(c)
    \/ \E c \in Calls : clause_reply(c)
    \/ run_query(Asker)
    \/ asked_reply(Asker)

SpecCache == InitCache /\ [][NextCache]_vars

(***************************************************************************)
(* The shaping of outcomes on its own: one query on a stored session whose *)
(* evaluation hands back None, a boolean, or any list of at most MaxItems  *)
(* items.                                                                  *)
(***************************************************************************)
MaxItems == 2

ItemValues == { No, Yes, Binding(<<"X">>, <<"a">>), Binding(<<"X">>, <<"b">>) }

ShapeOutcomes ==
    { PyNone, PyFalse, PyTrue } \cup
    { PyList(l) : l \in UNION {[1..n -> ItemValues] : n \in 0..MaxItems} }

InitShape ==
    /\ \E kb \in KbTexts :
          store = [s \in Sids |->
                     IF s = 1
                     THEN [exists |-> TRUE, knowledgeBase |-> kb, modifiedAt |-> 0]
                     ELSE NoSession]
    /\ clock = 0
    /\ calls = [c \in Calls |-> IdleCall]
    /\ prompts = ShippedQueryPrompts
    /\ container = DependencyContainer
    /\ gui = UIState

outcome_reply(c) == engine_reply_from(c, ShapeOutcomes)

NextShape ==
    \/ run_query(1)
    \/ query_reply(1)
    \/ outcome_reply(1)
    \/ explain_reply(1)

SpecShape == InitShape /\ [][NextShape]_vars

(***************************************************************************)
(* Properties of the prompt chain executor (checked under SpecChain).      *)
(***************************************************************************)
Ended(c) == calls[c].pc \in {"done", "failed"}

\* the chain of template t has returned a value to assert_into_session
Returned(c, t) ==
    IF t = "INTENT_CLASSIFIER" THEN calls[c].intent_raw # <<>>
    ELSE calls[c].template = t /\ calls[c].llm_response # <<>>

Value(c, t) ==
    IF t = "INTENT_CLASSIFIER" THEN calls[c].intent_raw ELSE calls[c].llm_response

NonBlank(r) == r.ok /\ strip(r.content) # <<>>

\* C1: a provider error on one variant is absorbed: the executor goes on to
\* the next variant, and a chain failure reaches the caller only after every
\* variant of the template has been attempted.
C1_FailureOnlyAfterAllVariants ==
    \A c \in Calls :
        /\ calls[c].pc = "failed" /\ calls[c].error \in {Exhausted, RequestFailed}
              => Len(LogOf(c, calls[c].template)) = prompts[calls[c].template]
        /\ Ended(c) =>
              \A k \in 1..Len(calls[c].log) :
                  LET e == calls[c].log[k] IN
                  ~e.reply.ok /\ e.variant < prompts[e.template]
                      => /\ k < Len(calls[c].log)
                         /\ calls[c].log[k + 1].template = e.template
                         /\ calls[c].log[k + 1].variant = e.variant + 1

\* C2: the variants of a template are sent in declaration order, the chain
\* returns the trimmed answer of the first variant that answered non-blank,
\* and no variant is sent after that one.
C2_FirstNonBlankWins ==
    \A c \in Calls : \A t \in Templates :
        LET L == LogOf(c, t) IN
        /\ \A k \in 1..Len(L) : L[k].variant = k
        /\ \A k \in 1..(Len(L) - 1) : ~NonBlank(L[k].reply)
        /\ Returned(c, t) =>
              /\ Len(L) >= 1
              /\ NonBlank(L[Len(L)].reply)
              /\ Value(c, t) = strip(L[Len(L)].reply.content)
        /\ Len(L) >= 1 /\ NonBlank(L[Len(L)].reply) => Returned(c, t)

\* a run over two variants whose first is blank and whose second answers with
\* surrounding whitespace, followed by a chain that returns at its first of two
C2_Witness ==
    \E c \in Calls :
        /\ calls[c].pc = "done"
        /\ Len(LogOf(c, "INTENT_CLASSIFIER")) = 2
        /\ calls[c].intent_raw # LogOf(c, "INTENT_CLASSIFIER")[2].reply.content
        /\ prompts[calls[c].template] = 2
        /\ Len(LogOf(c, calls[c].template)) = 1

\* C3: the chain fails with its exhaustion error exactly when every variant
\* of the template was sent and each answered blank; every variant was then
\* sent exactly once.
C3_ExhaustionIffAllBlank ==
    \A c \in Calls : \A t \in Templates :
        LET L == LogOf(c, t) IN
        /\ (calls[c].error = Exhausted /\ calls[c].template = t)
              <=> (Len(L) = prompts[t] /\ \A k \in 1..Len(L) : Blank(L[k].reply))
        /\ calls[c].error = Exhausted /\ calls[c].template = t
              => \A k \in 1..Len(L) : L[k].variant = k

\* a chain of two variants, both blank, has failed
C3_Witness ==
    \E c \in Calls :
        /\ calls[c].error = Exhausted
        /\ prompts[calls[c].template] = 2
        /\ Len(LogOf(c, calls[c].template)) = 2

\* C7: an assert its client has abandoned never saves the session.
C7_NoWriteAfterCancel ==
    \A c \in Calls : calls[c].abandoned => calls[c].saved = 0

(***************************************************************************)
(* Properties of assert_into_session and the session store (under Spec).   *)
(***************************************************************************)
AssertDone(c) == calls[c].op = "assert" /\ calls[c].pc = "done"

\* this step is a save_session of assert call c
AssertSaves(c) == calls[c].op = "assert" /\ calls'[c].saved > calls[c].saved

\* this step ends assert call c after its translation chain returned
AssertEnds(c) ==
    /\ calls[c].op = "assert" /\ calls[c].pc = "chain"
    /\ calls'[c].pc # "chain" /\ calls'[c].llm_response # <<>>

\* the text a saving call hands to save_session: the loaded text plus the
\* added clauses, or the replacement text
OwnText(c) ==
    IF calls[c].op = "assert"
    THEN strip(calls[c].loaded.knowledgeBase \o NL \o join(calls[c].added))
    ELSE calls[c].body

\* sequence a is a prefix of sequence b
IsPrefix(a, b) == Len(a) <= Len(b) /\ SubSeq(b, 1, Len(a)) = a

\* C4: the lines of the KB text a successful assert loaded are a prefix of
\* the lines of the KB text it returns.
C4_LoadedLinesArePrefix ==
    \A c \in Calls :
        AssertDone(c) =>
            IsPrefix(splitlines(calls[c].loaded.knowledgeBase),
                     splitlines(calls[c].session.knowledgeBase))

C6_LastWriterWins ==
    \A c \in Calls :
        /\ calls[c].saved > 0
        /\ calls[c].session.modifiedAt = store[calls[c].sid].modifiedAt
        => store[calls[c].sid].knowledgeBase = OwnText(c)

\* two overlapping asserts on one session have both saved; the stored text
\* is the later writer's and lacks the clause the earlier writer added
C6_Witness ==
    \E c, d \in Calls :
        /\ c # d /\ AssertDone(c) /\ AssertDone(d)
        /\ calls[c].sid = calls[d].sid
        /\ calls[c].saved = 1 /\ calls[d].saved = 1
        /\ calls[d].loaded.modifiedAt < calls[c].session.modifiedAt
        /\ calls[c].session.modifiedAt < calls[d].session.modifiedAt
        /\ store[calls[d].sid].knowledgeBase = OwnText(d)
        /\ \E k \in 1..Len(calls[c].added) :
              calls[c].added[k] \notin Lines(store[calls[d].sid].knowledgeBase)

\* C8: an assert that repeats the previous assert on the session (same
\* text, same backend answers, KB as the previous one left it) adds nothing
\* and returns the same KB text.
C8_RepeatAddsNothing ==
    \A c, d \in Calls :
        /\ c # d /\ AssertDone(c) /\ AssertDone(d)
        /\ calls[c].sid = calls[d].sid /\ calls[c].text = calls[d].text
        /\ calls[d].loaded = calls[c].session
        /\ calls[d].log = calls[c].log
        => /\ calls[d].added = <<>>
           /\ calls[d].session.knowledgeBase = calls[c].session.knowledgeBase

\* C9: when the translation normalizes to zero clauses the assert fails with
\* the translation failure, saves nothing and leaves the store as it was.
C9_NoClausesFails ==
    [][\A c \in Calls :
          AssertEnds(c) /\ _extract_prolog(calls'[c].llm_response) = <<>> =>
              /\ calls'[c].pc = "failed"
              /\ calls'[c].error = NoProlog
              /\ calls'[c].saved = 0
              /\ calls'[c].session = calls[c].loaded
              /\ store' = store]_vars

\* an assert has failed on an answer of prose only
C9_Witness ==
    \E c \in Calls :
        /\ calls[c].op = "assert" /\ calls[c].pc = "failed"
        /\ calls[c].error = NoProlog
        /\ calls[c].llm_response = <<"n", "o">>

\* C10: when clauses were translated and each is already a line of the KB,
\* the assert succeeds with an empty added-list, does not save, and the
\* persisted record keeps its text and its stamp.
C10_AllDuplicatesNoSave ==
    [][\A c \in Calls :
          /\ AssertEnds(c)
          /\ calls'[c].new_clauses # <<>>
          /\ \A k \in 1..Len(calls'[c].new_clauses) :
                calls'[c].new_clauses[k] \in Lines(calls[c].loaded.knowledgeBase)
          => /\ calls'[c].pc = "done"
             /\ calls'[c].added = <<>>
             /\ calls'[c].saved = 0
             /\ calls'[c].session = calls[c].loaded
             /\ store' = store]_vars

\* an assert has ended with translated clauses, none of them added, no save
C10_Witness ==
    \E c \in Calls :
        /\ AssertDone(c)
        /\ calls[c].new_clauses # <<>>
        /\ \A k \in 1..Len(calls[c].new_clauses) :
              calls[c].new_clauses[k] \in Lines(calls[c].loaded.knowledgeBase)
        /\ calls[c].added = <<>> /\ calls[c].saved = 0

(***************************************************************************)
(* Properties of run_query and the reasoning dispatcher (under SpecReason).*)
(***************************************************************************)
\* the engine has answered query call c
Evaluated(c) == calls[c].op = "query" /\ calls[c].raw # Unset

\* C11: for a query whose engine outcome is the empty list, a missing
\* result or boolean false, the shaped result serialized into the
\* RESULT_TO_NL prompt is never the literal "true" nor another affirmative
\* token: it is the token "No".
C11_EmptyOutcomeNeverTrue ==
    \A c \in Calls :
        Evaluated(c) /\ calls[c].raw \in {PyList(<<>>), PyNone, PyFalse} =>
            /\ calls[c].result_for_llm # PyStr(<<"t", "r", "u", "e">>)
            /\ calls[c].result_json \notin
                  {<<"t", "r", "u", "e">>, Quoted(<<"t", "r", "u", "e">>),
                   Quoted(<<"Y", "e", "s">>), dumps(PyList(<<Yes>>))}
            /\ calls[c].result_json = Quoted(<<"N", "o">>)

\* a query whose engine handed back no result has been explained from "No"
C11_Witness ==
    \E c \in Calls :
        /\ calls[c].op = "query" /\ calls[c].pc = "done"
        /\ calls[c].raw = PyNone
        /\ calls[c].result_json = Quoted(<<"N", "o">>)

\* C12: an evaluation that does not finish within the timeout leads to the
\* dispatcher returning control with its timeout error: a call waiting on
\* the engine does not wait forever on an evaluation that never ends, and a
\* call that leaves the wait while the evaluation is still running leaves it
\* failed with the timeout error and without an outcome.
C12_OverrunEndsInTimeout ==
    /\ \A c \in Calls :
          (calls[c].pc = "engine") ~>
              (calls[c].thread = "ended" \/ calls[c].error = TimedOut)
    /\ [][\A c \in Calls :
            /\ calls[c].pc = "engine" /\ calls'[c].pc # "engine"
            /\ calls'[c].thread = "running"
            => /\ calls'[c].pc = "failed"
               /\ calls'[c].error = TimedOut
               /\ calls'[c].result = Unset
               /\ calls'[c].log = calls[c].log]_vars

\* a query has failed with the timeout error on an evaluation still running
C12_Witness ==
    \E c \in Calls :
        /\ calls[c].op = "query" /\ calls[c].pc = "failed"
        /\ calls[c].error = TimedOut
        /\ calls[c].thread = "running"
        /\ calls[c].result = Unset

\* C13: once the dispatcher has reported a timeout, no evaluation work of
\* that call is still running.
C13_NoEvaluationAfterTimeout ==
    \A c \in Calls :
        calls[c].error = TimedOut => calls[c].thread # "running"

(***************************************************************************)
(* Properties of update_kb (under Spec).                                   *)
(***************************************************************************)
\* this step is the whole of update_kb call c
Replaces(c) == calls[c].pc = "idle" /\ calls'[c].op = "update_kb"

\* C14: replace_kb validates the full proposed text before committing: when
\* validation fails the call fails with the validation failure, does not
\* save and leaves the stored record as it was; the text it stores is
\* always one that passed validation.
C14_ReplaceValidatesFirst ==
    [][\A c \in Calls :
          Replaces(c) =>
              /\ calls'[c].validation = "invalid" =>
                    /\ calls'[c].pc = "failed"
                    /\ calls'[c].error = Invalid
                    /\ calls'[c].saved = 0
                    /\ store' = store
              /\ store' # store \/ calls'[c].saved > 0 =>
                    /\ calls'[c].validation = "valid"
                    /\ store'[calls'[c].sid].knowledgeBase = calls'[c].body]_vars

\* a replacement was rejected and the session keeps the different text it
\* held before
C14_Witness ==
    \E c \in Calls :
        /\ calls[c].op = "update_kb" /\ calls[c].error = Invalid
        /\ calls[c].loaded.knowledgeBase # <<>>
        /\ calls[c].loaded.knowledgeBase # calls[c].body
        /\ store[calls[c].sid] = calls[c].loaded

(***************************************************************************)
(* Properties of the operations side by side (under SpecQuery).            *)
(***************************************************************************)
\* this step starts request c
Starts(c) == calls[c].pc = "idle" /\ calls'[c].pc # "idle"

\* this step is a step of request c
Steps(c) == calls'[c] # calls[c]

\* request c has called no collaborator: neither the generation backend,
\* nor the logic engine, nor the validator, nor save_session
Untouched(call) ==
    /\ call.log = <<>> /\ call.thread = "none" /\ call.raw = Unset
    /\ call.validation = "" /\ call.saved = 0

\* C15: assert, query and replace_kb on an id with no stored session fail
\* with NotFound before any call to the generation backend, the logic
\* engine or the validator, and no session record is created or written.
C15_AbsentSessionFailsFirst ==
    /\ [][\A c \in Calls :
            Starts(c) /\ ~store[calls'[c].sid].exists =>
                /\ calls'[c].pc = "failed"
                /\ calls'[c].error = NotFound
                /\ Untouched(calls'[c])
                /\ store' = store]_vars
    /\ [](\A c \in Calls :
            calls[c].error = NotFound =>
                calls[c].pc = "failed" /\ Untouched(calls[c]))

\* an assert and a query have both failed on an absent session
C15_Witness ==
    \E c, d \in Calls :
        /\ calls[c].op = "assert" /\ calls[c].error = NotFound
        /\ calls[d].op = "query" /\ calls[d].error = NotFound
        /\ ~store[calls[d].sid].exists

\* C16: no step of a query saves or changes the persisted sessions,
\* whatever the query's outcome; the persisted KB text of a session changes
\* only in the save of an assert that added clauses or of a replacement
\* that passed validation.
C16_QueryLeavesStore ==
    [][/\ \A c \in Calls :
            Steps(c) /\ calls'[c].op = "query" =>
                /\ store' = store
                /\ calls'[c].saved = 0
                /\ calls'[c].pc # "idle" /\ calls[c].pc # "idle"
                      => calls'[c].session = calls[c].session
       /\ \A s \in DOMAIN store :
            store[s].exists /\ store'[s].knowledgeBase # store[s].knowledgeBase =>
                \E c \in Calls :
                    /\ calls'[c].sid = s /\ calls'[c].pc = "done"
                    /\ \/ AssertSaves(c) /\ calls'[c].added # <<>>
                       \/ Replaces(c) /\ calls'[c].validation = "valid"]_vars

\* a query on a session that holds clauses has been answered and the stored
\* record is still the one the query loaded
C16_Witness ==
    \E c \in Calls :
        /\ calls[c].op = "query" /\ calls[c].pc = "done"
        /\ calls[c].loaded.knowledgeBase # <<>>
        /\ store[calls[c].sid] = calls[c].loaded

StartsWithPredicate(t) ==
    /\ t # <<>> /\ t[1] \in Lower
    /\ SkipWhile(t, 2, IdentChars) <= Len(t)
    /\ t[SkipWhile(t, 2, IdentChars)] = "("

BlankLine(l) == strip(l) = <<>>
CommentLine(l) == strip(l) # <<>> /\ strip(l)[1] = "%"

\* C18: every string the normalizer emits begins with a lowercase
\* identifier immediately followed by "(" and ends with the terminator ".",
\* and the normalizer emits no blank line and no comment line.
C18_EmitsOnlyClauseLines ==
    \A c \in Calls :
        calls[c].pc = "normalized" =>
            \A k \in 1..Len(calls[c].new_clauses) :
                LET clause == calls[c].new_clauses[k] IN
                /\ StartsWithPredicate(clause)
                /\ EndsWithDot(clause)
                /\ \A l \in Lines(clause) : ~BlankLine(l) /\ ~CommentLine(l)
(***************************************************************************)
(* The arity computation on its own: queries on a session whose KB text is *)
(* any text of at most MaxLines clauses, each a head of ArityHeads         *)
(* followed by a body of ArityBodies (none for a fact) and a period.       *)
(***************************************************************************)
ArityHeads ==
    { <<"p", "(", ")">>,
      <<"p", "(", " ", ")">>,
      <<"p", "(", "a", ")">>,
      <<"p", "(", "a", ",", "b", ")">>,
      <<"p", "(", "a", ",", "q", "(", ")", ")">>,
      <<"p", "(", "q", "(", "a", ",", "b", ")", ")">> }

ArityBodies ==
    { <<>>,
      <<" ", ":", "-", " ", "q", "(", "a", ",", "b", ")">>,
      <<" ", ":", "-", " ", "q", "(", ")", ",", " ", "p", "(", "a", ",", "b", ")">> }

ArityLines == {h \o b \o <<".">> : h \in ArityHeads, b \in ArityBodies}

\* the texts of exactly n clauses
RECURSIVE ArityKbsOf(_)
ArityKbsOf(n) ==
    IF n = 1 THEN ArityLines
    ELSE {k \o NL \o l : k \in ArityKbsOf(n - 1), l \in ArityLines}

ArityKbs == UNION {ArityKbsOf(n) : n \in 1..MaxLines}

InitArity ==
    /\ \E kb \in ArityKbs :
          store = [s \in Sids |->
                     IF s = 1
                     THEN [exists |-> TRUE, knowledgeBase |-> kb, modifiedAt |-> 0]
                     ELSE NoSession]
    /\ clock = 0
    /\ calls = [c \in Calls |-> IdleCall]
    /\ prompts = ShippedQueryPrompts
    /\ container = DependencyContainer
    /\ gui = UIState

NextArity == \E c \in Calls : run_query(c)

SpecArity == InitArity /\ [][NextArity]_vars

(***************************************************************************)
(* POST /config/llm: DependencyContainer.set_llm_config and                *)
(* _create_llm_provider.  The request does not suspend.  Whether the       *)
(* constructor of a provider library raises is an input.                   *)
(***************************************************************************)
\* the request bodies (LlmConfig); texts are named by one element
LlmConfigs ==
    [provider : {"Mock", "Ollama", "Gemini"},
     model : {null, <<"m">>},
     api_key : {null, <<"k">>, <<"*", "*">>},
     base_url : {null, <<"u">>}]

\* bool(value) is False for None and for the empty text
NoText(value) == value = null \/ value = <<>>

\* config.api_key and all(c == '*' for c in config.api_key)
IsMask(api_key) ==
    ~NoText(api_key) /\ \A k \in 1..Len(api_key) : api_key[k] = "*"

\* _create_llm_provider on the stored configuration: the provider made, or
\* the ProviderError raised
_create_llm_provider(config, environ, raises) ==
    LET api_key == IF NoText(config.api_key) THEN environ ELSE config.api_key IN
    CASE config.provider = "Ollama" ->
           IF raises
           THEN [raise |-> TRUE, message |-> "Failed to init Ollama",
                 provider |-> MockLlmProvider]
           ELSE [raise |-> FALSE, message |-> "",
                 provider |-> [kind |-> "Ollama", model |-> config.model,
                               api_key |-> null, base_url |-> config.base_url]]
      [] config.provider = "Gemini" ->
           IF NoText(api_key)
           THEN [raise |-> TRUE,
                 message |-> "Failed to init Gemini: Gemini API key not found.",
                 provider |-> MockLlmProvider]
           ELSE IF raises
           THEN [raise |-> TRUE, message |-> "Failed to init Gemini",
                 provider |-> MockLlmProvider]
           ELSE [raise |-> FALSE, message |-> "",
                 provider |-> [kind |-> "Gemini", model |-> config.model,
                               api_key |-> api_key, base_url |-> null]]
      [] OTHER -> [raise |-> FALSE, message |-> "", provider |-> MockLlmProvider]

set_llm_config(c) ==
    \E config \in LlmConfigs, raises \in BOOLEAN :
        LET new_config_dict ==
                IF IsMask(config.api_key)
                THEN [config EXCEPT
                        !.api_key = container.llm_config_store.api_key]
                ELSE config
            made == _create_llm_provider(new_config_dict,
                                         container.GOOGLE_API_KEY, raises)
        IN  /\ Free(c)
            /\ container' = [container EXCEPT
                  !.llm_config_store = new_config_dict,
                  !.llm_provider = IF made.raise THEN @ ELSE made.provider]
            /\ calls' = [calls EXCEPT ![c] =
                  IF made.raise
                  THEN [IdleCall EXCEPT !.op = "set_llm_config", !.pc = "failed",
                           !.error = Error("HTTPException", made.message)]
                  ELSE [IdleCall EXCEPT !.op = "set_llm_config", !.pc = "done"]]
            /\ UNCHANGED <<store, clock, prompts, gui>>

InitConfig ==
    /\ store = [s \in Sids |-> NoSession]
    /\ clock = 0
    /\ calls = [c \in Calls |-> IdleCall]
    /\ prompts = ShippedPrompts
    /\ \E key \in {null, <<"e">>} :
          container = [DependencyContainer EXCEPT !.GOOGLE_API_KEY = key]
    /\ gui = UIState

NextConfig == \E c \in Calls : set_llm_config(c)

SpecConfig == InitConfig /\ [][NextConfig]_vars

(***************************************************************************)
(* The desktop client: MainController and the KB editor of MainWindow.     *)
(* A slot runs to completion, its HTTP requests included (requests is      *)
(* blocking); whether a request gets through is an input.  The functions   *)
(* below work on the server's sessions and the client's state together.    *)
(*                                                                         *)
(* A request that fails raises ApiClientError.  _action_handler and        *)
(* save_kb read e.message in their handler of it, an attribute the class   *)
(* does not set, so an AttributeError leaves the handler: an enclosing     *)
(* _action_handler catches it as an unexpected error and goes on; out of   *)
(* a slot it is unhandled and PyQt ends the process.                       *)
(***************************************************************************)
World(st, now, ui) == [store |-> st, clock |-> now, gui |-> ui, raised |-> FALSE]

\* an ApiClientError in the body of an _action_handler
Raise(w) == [w EXCEPT !.gui.ok = FALSE, !.raised = TRUE]

\* an enclosing _action_handler catches what its body let through
Caught(w) == [w EXCEPT !.raised = FALSE]

\* FileContextProvider.list_sessions: the ids of the session files, sorted
RECURSIVE Ascending(_)
Ascending(S) ==
    IF S = {} THEN <<>>
    ELSE LET m == CHOOSE x \in S : \A y \in S : x <= y
         IN  <<m>> \o Ascending(S \ {m})

list_sessions(st) == Ascending({s \in DOMAIN st : st[s].exists})

\* the ids POST /sessions can still hand out
FreeSids(st) == {s \in Sids : ~st[s].exists /\ \A t \in 1..(s - 1) : st[t].exists}

\* which requests of a slot get through
Links == [create : BOOLEAN, list : BOOLEAN, get : BOOLEAN]

\* MainController.change_session; the editor follows the KB text of the
\* UI state (MainWindow.on_kb_text_changed)
ChangeSession(w, session_id, up) ==
    IF session_id = w.gui.session_id THEN w
    ELSE IF ~up \/ ~w.store[session_id].exists
    THEN Raise([w EXCEPT !.gui.session_id = session_id])
    ELSE [w EXCEPT !.gui.session_id = session_id,
                   !.gui.kb_text = w.store[session_id].knowledgeBase,
                   !.gui.kb_editor = w.store[session_id].knowledgeBase]

\* MainController.refresh_sessions_list and create_new_session, which call
\* each other
RECURSIVE RefreshSessionsList(_, _)
RECURSIVE CreateNewSession(_, _)
RefreshSessionsList(w, up) ==
    IF ~up.list THEN Raise(w)
    ELSE LET session_ids == list_sessions(w.store)
             listed == [w EXCEPT !.gui.sessions = session_ids]
         IN  IF w.gui.session_id = NoSessionId /\ session_ids # <<>>
             THEN Caught(ChangeSession(listed, session_ids[1], up.get))
             ELSE IF session_ids = <<>>
             THEN Caught(CreateNewSession(listed, up))
             ELSE listed

CreateNewSession(w, up) ==
    IF ~up.create \/ FreeSids(w.store) = {} THEN Raise(w)
    ELSE LET sid == CHOOSE s \in FreeSids(w.store) : TRUE
             created == [w EXCEPT
                           !.store = save_session(w.store, sid,
                                                  Session(w.clock), w.clock + 1),
                           !.clock = w.clock + 1]
             refreshed == RefreshSessionsList(created, up)
         IN  IF refreshed.raised THEN Caught(refreshed)
             ELSE [refreshed EXCEPT !.gui.session_id = sid]

\* the state a slot starts from
Slot(name) == World(store, clock, [gui EXCEPT !.slot = name, !.ok = TRUE])

\* the state a slot ends in; an exception it lets through ends the process
Becomes(w) ==
    /\ store' = w.store
    /\ clock' = w.clock
    /\ gui' = [w.gui EXCEPT !.alive = ~w.raised]

\* MainController.initialize_app, run once when the window opens
initialize_app ==
    \E health \in BOOLEAN, up \in Links :
        /\ gui.alive /\ gui.slot = ""
        /\ Becomes(IF health THEN RefreshSessionsList(Slot("initialize_app"), up)
                   ELSE [Slot("initialize_app") EXCEPT !.gui.ok = FALSE])
        /\ UNCHANGED <<calls, prompts, container>>

\* the user picks an entry of the session list
change_session(session_id) ==
    \E up \in BOOLEAN :
        /\ gui.alive /\ gui.slot # ""
        /\ \E k \in 1..Len(gui.sessions) : gui.sessions[k] = session_id
        /\ session_id # gui.session_id
        /\ Becomes(ChangeSession(Slot("change_session"), session_id, up))
        /\ UNCHANGED <<calls, prompts, container>>

\* the user presses New Session
create_new_session ==
    \E up \in Links :
        /\ gui.alive /\ gui.slot # ""
        /\ FreeSids(store) # {}
        /\ Becomes(CreateNewSession(Slot("create_new_session"), up))
        /\ UNCHANGED <<calls, prompts, container>>

\* the user changes the text of the KB editor, which starts the save timer
kb_editor_textChanged ==
    \E text \in KbTexts :
        /\ gui.alive /\ gui.slot # ""
        /\ text # gui.kb_editor
        /\ gui' = [gui EXCEPT !.kb_editor = text, !.kb_save_timer = TRUE,
                              !.slot = "textChanged", !.ok = TRUE]
        /\ UNCHANGED <<store, clock, calls, prompts, container>>

\* the most the clock of the model reaches
MaxClock == MaxSessions + MaxCalls

\* the save timer fires: MainController.save_kb with the editor's text, and
\* PUT /sessions/{id}/kb on the server
save_kb ==
    \E up \in BOOLEAN, valid \in BOOLEAN :
        LET sid == gui.session_id
            ran == [gui EXCEPT !.kb_save_timer = FALSE, !.slot = "save_kb"]
        IN  /\ gui.alive /\ gui.kb_save_timer
            /\ clock < MaxClock
            /\ IF sid = NoSessionId
               THEN /\ gui' = [ran EXCEPT !.ok = TRUE]
                    /\ UNCHANGED <<store, clock>>
               ELSE IF ~up \/ ~store[sid].exists \/ ~valid
               THEN /\ gui' = [ran EXCEPT !.ok = FALSE, !.alive = FALSE]
                    /\ UNCHANGED <<store, clock>>
               ELSE /\ gui' = [ran EXCEPT !.ok = TRUE]
                    /\ clock' = clock + 1
                    /\ store' = save_session(store, sid,
                          [store[sid] EXCEPT !.knowledgeBase = gui.kb_editor],
                          clock + 1)
            /\ UNCHANGED <<calls, prompts, container>>

InitGui ==
    /\ \E kept \in {NoSession} \cup
                   {[exists |-> TRUE, knowledgeBase |-> kb, modifiedAt |-> 0]
                      : kb \in KbTexts} :
          store = [s \in Sids \cup {Kept} |-> IF s = Kept THEN kept ELSE NoSession]
    /\ clock = 0
    /\ calls = [c \in Calls |-> IdleCall]
    /\ prompts = ShippedPrompts
    /\ container = DependencyContainer
    /\ gui = UIState

NextGui ==
    \/ initialize_app
    \/ \E session_id \in Sids \cup {Kept} : change_session(session_id)
    \/ create_new_session
    \/ kb_editor_textChanged
    \/ save_kb

SpecGui == InitGui /\ [][NextGui]_vars


(***************************************************************************)
(* Properties of the schema extractor (under SpecSchema).                  *)
(***************************************************************************)
\* query call c has loaded its session and extracted the schema
Extracted(c) == calls[c].op = "query" /\ calls[c].pc = "chain"

IsSignature(item) == \E k \in 1..Len(item) : item[k] = "/"

\* the name/arity items of a schema list, in its order
SignaturesOf(schema) == SelectSeq(schema, IsSignature)

Range(seq) == {seq[k] : k \in 1..Len(seq)}

\* clauses as the normalizer emits them, with their name/arity signatures
SchemaClauses ==
    { [text |-> <<"p", "(", "a", ",", "\n", "b", ")", ".">>,
       signature |-> <<"p", "/", "2">>] } \cup
    { [text |-> <<"p", "(", "a", ")", ".">>, signature |-> <<"p", "/", "1">>],
      [text |-> <<"p", "(", "b", ")", ".">>, signature |-> <<"p", "/", "1">>],
      [text |-> <<"p", "(", "a", ",", "b", ")", ".">>,
       signature |-> <<"p", "/", "2">>],
      [text |-> <<"q", "(", "a", ")", " ", ":", "-", " ",
                  "p", "(", "a", ",", "b", ")", ".">>,
       signature |-> <<"q", "/", "1">>] }

\* C19: appending to a KB a clause whose signature is already in the
\* extracted schema leaves the extracted signatures unchanged, and arities
\* are kept apart: every clause of the KB yields its own name/arity, so
\* p(a) and p(a,b) yield the two signatures p/1 and p/2.
C19_SchemaStableAndExact ==
    \A c \in Calls :
        Extracted(c) =>
            LET kb == calls[c].loaded.knowledgeBase
                signatures == SignaturesOf(calls[c].schema)
            IN  /\ \A clause \in SchemaClauses :
                      clause.signature \in Range(signatures) =>
                          SignaturesOf(_get_kb_schema(
                              AppendClauses(kb, <<clause.text>>))) = signatures
                /\ \A clause \in SchemaClauses :
                      clause.text \in Lines(kb) =>
                          clause.signature \in Range(signatures)
                /\ \A i, j \in 1..Len(signatures) :
                      i < j => StrLess(signatures[i], signatures[j])

\* C20: a non-blank, non-comment KB line that does not begin with a
\* lowercase identifier immediately followed by "(" contributes no
\* name/arity signature: every signature of the extracted schema is the
\* signature of a KB line that begins so.
C20_MalformedLineGivesNoSignature ==
    \A c \in Calls :
        Extracted(c) =>
            \A signature \in Range(SignaturesOf(calls[c].schema)) :
                \E l \in StrippedLines(calls[c].loaded.knowledgeBase) :
                    /\ StartsWithPredicate(l)
                    /\ signature \in SignaturesOfLine(l)

(***************************************************************************)
(* Properties of the dispatcher's outcomes and errors (under SpecReason).   *)
(***************************************************************************)
\* C21: when the engine hands back a missing result (None), the dispatcher
\* returns the empty outcome and raises no error: the query goes on to its
\* explanation chain with the empty list as its result.
C21_MissingResultIsEmptyOutcome ==
    /\ [][\A c \in Calls :
            calls[c].pc = "engine" /\ calls'[c].raw = PyNone =>
                /\ calls'[c].result = PyList(<<>>)
                /\ calls'[c].raised = NoError /\ calls'[c].error = NoError
                /\ calls'[c].pc = "chain"
                /\ calls'[c].template = "RESULT_TO_NL"]_vars
    /\ [](\A c \in Calls :
            calls[c].raw = PyNone =>
                /\ calls[c].result = PyList(<<>>)
                /\ calls[c].raised = NoError /\ calls[c].thrown = "")

\* a query whose engine handed back None has ended with an answer and the
\* empty list as its result
C21_Witness ==
    \E c \in Calls :
        /\ calls[c].op = "query" /\ calls[c].pc = "done"
        /\ calls[c].raw = PyNone
        /\ calls[c].result = PyList(<<>>)
        /\ calls[c].answer # <<>> /\ calls[c].error = NoError

\* C22: an exception the engine raises while the KB text is loaded or the
\* goal is evaluated is surfaced by the dispatcher as its reasoning error
\* carrying the exception's message; it is never turned into an empty
\* outcome, a boolean outcome or the timeout error.
C22_EngineErrorSurfaces ==
    \A c \in Calls :
        calls[c].thrown # "" =>
            /\ calls[c].raised.type = "ProviderError"
            /\ calls[c].raised.message = "Pytholog reasoning error: {e}"
            /\ calls[c].raised.cause = calls[c].thrown
            /\ calls[c].raised # TimedOut
            /\ calls[c].raw = Unset /\ calls[c].result = Unset
            /\ calls[c].result_for_llm = Unset

\* one query failed on an exception raised at the load, another on a
\* different exception raised by the evaluation
C22_Witness ==
    \E c, d \in Calls :
        /\ calls[c].thrown # "" /\ calls[c].thread = "none"
        /\ calls[d].thrown # "" /\ calls[d].thread = "ended"
        /\ calls[c].thrown # calls[d].thrown
        /\ calls[c].raised.cause = calls[c].thrown
        /\ calls[d].raised.cause = calls[d].thrown

\* C23: when the dispatcher fails during a query, with its timeout error or
\* its reasoning error, run_query fails with that same error, the
\* RESULT_TO_NL chain is never invoked for that query and no answer is
\* returned.
C23_DispatcherFailurePropagates ==
    \A c \in Calls :
        calls[c].raised # NoError =>
            /\ calls[c].pc = "failed"
            /\ calls[c].error = calls[c].raised
            /\ LogOf(c, "RESULT_TO_NL") = <<>>
            /\ calls[c].template = "NL_TO_QUERY"
            /\ calls[c].result_json = <<>> /\ calls[c].answer = <<>>

\* one query failed with the timeout error, another with a reasoning error,
\* after their goals were translated
C23_Witness ==
    \E c, d \in Calls :
        /\ calls[c].pc = "failed" /\ calls[c].error = TimedOut
        /\ calls[d].pc = "failed" /\ calls[d].error.cause # ""
        /\ calls[d].thread = "ended"
        /\ calls[c].prolog_query # <<>> /\ calls[d].prolog_query # <<>>

(***************************************************************************)
(* Properties of the goal translation (under SpecGoal).                    *)
(***************************************************************************)
\* the text without its trailing terminators
Unterminated(t) ==
    LET n == CHOOSE n \in 0..Len(t) :
                 /\ n = 0 \/ t[n] # "."
                 /\ \A k \in (n + 1)..Len(t) : t[k] = "."
    IN  SubSeq(t, 1, n)

\* the dispatcher was called for query call c: it loaded the KB text and
\* built the goal, and failed on that or started the evaluation
Dispatched(c) ==
    calls[c].op = "query" /\ (calls[c].thread # "none" \/ calls[c].thrown # "")

\* C24: the goal of a query is the chain's text without its trailing
\* terminators; when that is blank the query fails with the translation
\* failure and the logic engine is not invoked; the engine is only ever
\* called with a non-blank goal that does not end in a terminator.
C24_GoalStrippedAndNonBlank ==
    \A c \in Calls :
        /\ calls[c].op = "query" /\ calls[c].llm_response # <<>> =>
              /\ calls[c].prolog_query = Unterminated(calls[c].llm_response)
              /\ strip(Unterminated(calls[c].llm_response)) = <<>> =>
                    /\ calls[c].pc = "failed" /\ calls[c].error = NoQuery
                    /\ ~Dispatched(c)
        /\ Dispatched(c) =>
              /\ strip(calls[c].prolog_query) # <<>>
              /\ ~EndsWithDot(calls[c].prolog_query)

\* the evaluation has started on a goal that the chain returned with more
\* than one trailing terminator
C24_Witness ==
    \E c \in Calls :
        /\ calls[c].pc = "engine" /\ calls[c].thread = "running"
        /\ Len(calls[c].llm_response) > Len(calls[c].prolog_query) + 1
        /\ calls[c].prolog_query # <<>>

(***************************************************************************)
(* Properties of the intent classification (under SpecIntent).             *)
(***************************************************************************)
\* the classifier's response names the class, in any letter case
Names(class, response) == Contains(upper(response), class)

\* the response names RULE and does not name FACT
SaysRule(response) ==
    /\ Names(<<"R", "U", "L", "E">>, response)
    /\ ~Names(<<"F", "A", "C", "T">>, response)

\* C25: the intent of an assert is RULE, and its translation runs the
\* NL_TO_RULES chain, only when the classifier's response names RULE and
\* not FACT; for every other response (naming neither class, or both) the
\* intent is FACT and the NL_TO_FACTS chain is run.
C25_IntentDefaultsToFact ==
    \A c \in Calls :
        calls[c].op = "assert" /\ calls[c].intent_raw # <<>> =>
            /\ calls[c].intent =
                  IF SaysRule(calls[c].intent_raw) THEN "RULE" ELSE "FACT"
            /\ calls[c].template =
                  IF SaysRule(calls[c].intent_raw) THEN "NL_TO_RULES"
                  ELSE "NL_TO_FACTS"
            /\ LogOf(c, IF SaysRule(calls[c].intent_raw) THEN "NL_TO_FACTS"
                        ELSE "NL_TO_RULES") = <<>>

(***************************************************************************)
(* Properties of the result of an assert (under Spec).                     *)
(***************************************************************************)
\* sequence a is b with some elements left out, order kept
RECURSIVE IsSubsequence(_, _)
IsSubsequence(a, b) ==
    IF a = <<>> THEN TRUE
    ELSE IF b = <<>> THEN FALSE
    ELSE IF a[1] = b[1] THEN IsSubsequence(Tail(a), Tail(b))
    ELSE IsSubsequence(a, Tail(b))

\* C26: for every successful assert the added-list is a subsequence of the
\* translated-clause list; the translated-clause list holds every clause
\* the normalizer produced, the ones discarded as duplicates of KB lines
\* included; every added clause is a line of the returned KB text; and the
\* returned KB text is the text the call persisted, or the loaded text,
\* unsaved, when nothing was added.
C26_AssertResultConsistent ==
    /\ [](\A c \in Calls :
            AssertDone(c) =>
                /\ IsSubsequence(calls[c].added, calls[c].new_clauses)
                /\ calls[c].new_clauses = _extract_prolog(calls[c].llm_response)
                /\ \A k \in 1..Len(calls[c].new_clauses) :
                      \/ calls[c].new_clauses[k] \in Range(calls[c].added)
                      \/ calls[c].new_clauses[k] \in
                            StrippedLines(calls[c].loaded.knowledgeBase)
                /\ \A k \in 1..Len(calls[c].added) :
                      calls[c].added[k] \in Lines(calls[c].session.knowledgeBase)
                /\ calls[c].added = <<>> =>
                      /\ calls[c].saved = 0
                      /\ calls[c].session.knowledgeBase =
                            calls[c].loaded.knowledgeBase)
    /\ [][\A c \in Calls :
            AssertSaves(c) =>
                /\ calls'[c].pc = "done" /\ calls'[c].added # <<>>
                /\ store'[calls'[c].sid].knowledgeBase =
                      calls'[c].session.knowledgeBase]_vars

(***************************************************************************)
(* Properties of a query after asserts (under SpecCache).                  *)
(***************************************************************************)
\* this step loads the session for query call q
Loads(q) == Starts(q) /\ calls'[q].op = "query" /\ calls'[q].pc = "chain"

\* assert call a has completed with added clauses
Added(a) == AssertDone(a) /\ calls[a].added # <<>>

\* every save on the session after the save of assert call a was made by
\* an assert that loaded the session after that save
Unoverwritten(a) ==
    \A b \in DOMAIN calls :
        /\ calls[b].op = "assert" /\ calls[b].sid = calls[a].sid
        /\ calls[b].saved > 0
        /\ calls[b].session.modifiedAt > calls[a].session.modifiedAt
        => calls[b].loaded.modifiedAt >= calls[a].session.modifiedAt

\* query call q works on a KB text that contains every clause assert call a
\* added, and on the schema of that text
SeesAdded(call, a) ==
    /\ \A k \in 1..Len(calls[a].added) :
          Contains(call.session.knowledgeBase, calls[a].added[k])
    /\ call.schema = _get_kb_schema(call.session.knowledgeBase)

\* the text and the schema a query loaded are the ones it keeps up to the
\* dispatch to the engine
KeepsSnapshot ==
    \A q \in DOMAIN calls :
        calls[q].op = "query" /\ Steps(q) =>
            /\ calls'[q].session = calls[q].session
            /\ calls'[q].schema = calls[q].schema

\* C27: when an assert on a session has completed with added clauses, every
\* query on that session that starts afterwards submits to the engine a KB
\* text that contains every added clause, and derives its schema from that
\* text.
C27_QuerySeesCompletedAsserts ==
    [][/\ \A q, a \in DOMAIN calls :
            Loads(q) /\ Added(a) /\ calls[a].sid = calls'[q].sid =>
                SeesAdded(calls'[q], a)
       /\ KeepsSnapshot]_vars

\* C27 as amended: the same, for an assert whose save was not followed by
\* the save of an assert that had loaded the session before it.
C27_QuerySeesUnoverwrittenAsserts ==
    [][/\ \A q, a \in DOMAIN calls :
            /\ Loads(q) /\ Added(a) /\ calls[a].sid = calls'[q].sid
            /\ Unoverwritten(a)
            => SeesAdded(calls'[q], a)
       /\ KeepsSnapshot]_vars

\* two asserts in a row have added a clause each and the evaluation of a
\* query that started after both has begun on a text holding both clauses
C27_Witness ==
    \E a, b, q \in DOMAIN calls :
        /\ Added(a) /\ Added(b) /\ calls[a].sid = calls[b].sid
        /\ calls[b].loaded = calls[a].session
        /\ calls[q].op = "query" /\ calls[q].pc = "engine"
        /\ calls[q].loaded = calls[b].session
        /\ SeesAdded(calls[q], a) /\ SeesAdded(calls[q], b)
        /\ calls[a].added # calls[b].added

(***************************************************************************)
(* Properties of the shaping of outcomes (under SpecShape).                *)
(***************************************************************************)
NonEmptyList(value) == value.kind = "list" /\ value.items # <<>>

\* C28: the value shown to the explanation step is a function of the
\* engine outcome: boolean true becomes "true"; an empty list, a missing
\* result and boolean false become "No"; every non-empty list is passed
\* through unchanged.
C28_ShapingOfOutcomes ==
    \A c \in Calls :
        Evaluated(c) =>
            /\ calls[c].result_json = dumps(calls[c].result_for_llm)
            /\ calls[c].raw = PyTrue =>
                  calls[c].result_for_llm = PyStr(<<"t", "r", "u", "e">>)
            /\ calls[c].raw \in {PyList(<<>>), PyNone, PyFalse} =>
                  calls[c].result_for_llm = PyStr(<<"N", "o">>)
            /\ NonEmptyList(calls[c].raw) =>
                  calls[c].result_for_llm = calls[c].raw

\* C28 as amended: the same, except that the one-item list holding the
\* engine's "No" becomes the token "No" like the empty outcomes; every other
\* non-empty list is passed through unchanged.
C28_ShapingOfOutcomesButNo ==
    \A c \in Calls :
        Evaluated(c) =>
            /\ calls[c].result_json = dumps(calls[c].result_for_llm)
            /\ calls[c].raw = PyTrue =>
                  calls[c].result_for_llm = PyStr(<<"t", "r", "u", "e">>)
            /\ calls[c].raw \in {PyList(<<>>), PyNone, PyFalse, PyList(<<No>>)} =>
                  calls[c].result_for_llm = PyStr(<<"N", "o">>)
            /\ NonEmptyList(calls[c].raw) /\ calls[c].raw # PyList(<<No>>) =>
                  calls[c].result_for_llm = calls[c].raw

\* a query has been answered whose outcome, a list of two items that
\* begins with the engine's "No", was passed through and serialized
C28_Witness ==
    \E c \in Calls :
        /\ calls[c].op = "query" /\ calls[c].pc = "done"
        /\ Len(calls[c].raw.items) = 2 /\ calls[c].raw.items[1] = No
        /\ calls[c].result_for_llm = calls[c].raw
        /\ calls[c].result_json = dumps(calls[c].raw)

\* C29: the result of a query is the engine outcome as it is: a boolean or
\* a list handed back by the engine is the result, unchanged; only a
\* missing result is replaced, by the empty list.
C29_ResultIsRawOutcome ==
    \A c \in Calls :
        Evaluated(c) =>
            /\ calls[c].raw.kind \in {"True", "False", "list"} =>
                  calls[c].result = calls[c].raw
            /\ calls[c].raw = PyNone => calls[c].result = PyList(<<>>)

(***************************************************************************)
(* Properties of the KB text that asserts build (under SpecCache).         *)
(***************************************************************************)
\* no two elements of the sequence are equal
NoRepeats(seq) == \A i, j \in 1..Len(seq) : i # j => seq[i] # seq[j]

\* C30: on a session that started with an empty KB and saw asserts only, no
\* two lines of the KB text are textually equal, in the stored text as in
\* the text an assert returns; a clause the translator emits twice within
\* one response is appended at most once.
C30_NoRepeatedLines ==
    /\ \A s \in DOMAIN store :
          store[s].exists => NoRepeats(splitlines(store[s].knowledgeBase))
    /\ \A c \in DOMAIN calls :
          AssertDone(c) =>
              /\ NoRepeats(calls[c].added)
              /\ NoRepeats(splitlines(calls[c].session.knowledgeBase))


(***************************************************************************)
(* The transport boundary: what the exception handler of the HTTP          *)
(* application reports for an error a request handler raised.              *)
(***************************************************************************)
mcr_exception_handler(exc) ==
    [status_code |-> CASE exc.type = "NotFoundError" -> 404
                       [] exc.type = "ProviderError" -> 502
                       [] exc.type = "ValidationError" -> 400
                       [] OTHER -> 500,
     content |-> [type |-> exc.type, message |-> exc.message]]

\* what a client can tell a failure by, other than the message text
KindOf(response) == <<response.status_code, response.content.type>>

\* the failure categories of the taxonomy, by the place that raises them
Category(e) ==
    CASE e = TimedOut -> "reasoning timeout"
      [] e.cause # "" -> "reasoning engine error"
      [] e \in {NoQuery, NoProlog, Exhausted} -> "translation failure"
      [] e = NotFound -> "not found"
      [] e = Invalid -> "validation failure"
      [] OTHER -> "other"

\* the errors the request handlers raise
Failures ==
    {TimedOut, NoQuery, NoProlog, Exhausted, NotFound, Invalid}
        \cup {ReasoningFailed(e) : e \in EngineErrors}

\* C31: failures of different categories of the taxonomy (reasoning
\* timeout, reasoning engine error, translation failure, not found,
\* validation failure) are reported at the transport boundary with
\* different kinds, not merely with different message text.
C31_FailureKindsDistinct ==
    \A c \in DOMAIN calls :
        calls[c].pc = "failed" =>
            \A e \in Failures :
                (/\ Category(calls[c].error) # "other"
                 /\ Category(calls[c].error) # Category(e)) =>
                    KindOf(mcr_exception_handler(calls[c].error))
                        # KindOf(mcr_exception_handler(e))


(***************************************************************************)
(* The order of the steps of an assert (under SpecChain).                  *)
(***************************************************************************)
TranslationTemplates == {"NL_TO_FACTS", "NL_TO_RULES"}

\* the backend calls of a request so far: every intent-classification call
\* comes before every translation call, a translation call is preceded by
\* an intent-classification call, and there is none before the load
StepsInOrder(call) ==
    /\ call.log # <<>> => call.loaded.exists
    /\ \A j \in 1..Len(call.log) :
          /\ call.log[j].template \in {"INTENT_CLASSIFIER"} \cup TranslationTemplates
          /\ call.log[j].template \in TranslationTemplates =>
                /\ call.log[1].template = "INTENT_CLASSIFIER"
                /\ \A k \in j..Len(call.log) :
                      call.log[k].template \in TranslationTemplates

\* C32: in every assert the steps occur in the order load, intent
\* classification calls, translation calls, save; the session is saved at
\* most once per call and only as the step that ends the call, after a
\* translation call; a failed call has saved nothing, and a call that has
\* ended (failed or done) takes no further step, so nothing is written
\* after a failure.
C32_AssertStepOrder ==
    /\ [](\A c \in DOMAIN calls :
            calls[c].op = "assert" =>
                /\ StepsInOrder(calls[c])
                /\ calls[c].saved <= 1
                /\ calls[c].saved = 1 => calls[c].pc = "done"
                /\ calls[c].pc = "failed" => calls[c].saved = 0)
    /\ [][\A c \in DOMAIN calls :
            /\ AssertSaves(c) =>
                  /\ calls[c].pc = "chain" /\ calls'[c].pc = "done"
                  /\ calls[c].template \in TranslationTemplates
                  /\ Len(calls'[c].log) = Len(calls[c].log) + 1
            /\ calls[c].pc \in {"failed", "done"} => calls'[c] = calls[c]
            /\ (\E s \in DOMAIN store :
                    store[s].exists /\ store'[s] # store[s]) =>
                  \E d \in DOMAIN calls : AssertSaves(d)]_vars

\* an assert went through all four steps: loaded, classified the intent
\* (after a retry), translated, and saved once as its last step
C32_Witness ==
    \E c \in DOMAIN calls :
        /\ AssertDone(c) /\ calls[c].saved = 1
        /\ Len(LogOf(c, "INTENT_CLASSIFIER")) >= 2
        /\ \E j \in 1..Len(calls[c].log) :
              calls[c].log[j].template \in TranslationTemplates
        /\ store[calls[c].sid] = calls[c].session


(***************************************************************************)
(* Order independence of the schema extractor (under SpecSchema).          *)
(***************************************************************************)
\* the rearrangements of 1..n
Rearrangements(n) ==
    {f \in [1..n -> 1..n] : \A i, j \in 1..n : f[i] = f[j] => i = j}

\* the lines in the order f
Permuted(lines, f) == [k \in 1..Len(lines) |-> lines[f[k]]]

\* the lines with line k written twice in a row
Repeated(lines, k) ==
    SubSeq(lines, 1, k) \o SubSeq(lines, k, Len(lines))

\* C33: the schema extracted from a KB text is the schema extracted from
\* the same lines in any other order, and from the text with any of its
\* lines repeated (in place or at the end); the list is in strictly
\* ascending order, so it has no repeated entry.
C33_SchemaOrderIndependent ==
    \A c \in Calls :
        Extracted(c) =>
            LET lines == splitlines(calls[c].loaded.knowledgeBase)
                schema == calls[c].schema
            IN  /\ \A f \in Rearrangements(Len(lines)) :
                      _get_kb_schema(join(Permuted(lines, f))) = schema
                /\ \A k \in 1..Len(lines) :
                      /\ _get_kb_schema(join(Repeated(lines, k))) = schema
                      /\ _get_kb_schema(join(Append(lines, lines[k]))) = schema
                /\ \A i, j \in 1..Len(schema) :
                      i < j => StrLess(schema[i], schema[j])

\* the schema of a KB of two different lines that share an item, the later
\* line holding an item that sorts before one of the earlier line
C33_Witness ==
    \E c \in Calls :
        /\ Extracted(c)
        /\ LET lines == splitlines(calls[c].loaded.knowledgeBase)
           IN  /\ Len(lines) = 2 /\ lines[1] # lines[2]
               /\ SchemaItems(lines[1]) \cap SchemaItems(lines[2]) # {}
               /\ \E x \in SchemaItems(lines[1]), y \in SchemaItems(lines[2]) :
                     StrLess(y, x)
               /\ Len(calls[c].schema) >= 3


(***************************************************************************)
(* The arity of a signature (under SpecArity).                             *)
(***************************************************************************)
\* the text between the opening parenthesis of the head and its last
\* closing parenthesis
ArgumentList(head) ==
    LET open == FindChar(head, 1, "(")
        close == CHOOSE k \in 0..Len(head) :
                    /\ k = 0 \/ head[k] = ")"
                    /\ \A m \in (k + 1)..Len(head) : head[m] # ")"
    IN  SubSeq(head, open + 1, close - 1)

\* commas of the argument list plus one, and 0 when the list is empty
ArgumentCount(head) ==
    IF strip(ArgumentList(head)) = <<>> THEN 0
    ELSE Cardinality({k \in 1..Len(ArgumentList(head)) :
                         ArgumentList(head)[k] = ","}) + 1

\* C34: the arity in a signature is computed from the clause head only:
\* the name/arity items of the schema are exactly, for each clause of the
\* KB, its predicate name with the number of commas in the argument list of
\* its head plus one, whatever the body holds, and with 0 when the argument
\* list of the head is empty.
C34_ArityFromHeadOnly ==
    \A c \in Calls :
        Extracted(c) =>
            Range(SignaturesOf(calls[c].schema)) =
                { Signature(PredicateName(l), ArgumentCount(ClauseHead(l)))
                    : l \in StrippedLines(calls[c].loaded.knowledgeBase) }


(***************************************************************************)
(* LLM configuration updates (under SpecConfig).                           *)
(***************************************************************************)
\* this step is a POST /config/llm that request c sees fail
ConfigFails(c) ==
    /\ calls[c].pc = "idle"
    /\ calls'[c].op = "set_llm_config" /\ calls'[c].pc = "failed"

\* C35: a failed LLM configuration update changes nothing: the stored LLM
\* configuration and the active provider are the same after the call as
\* before it.
C35_FailedUpdateChangesNothing ==
    [][\A c \in Calls :
          ConfigFails(c) =>
              /\ container'.llm_config_store = container.llm_config_store
              /\ container'.llm_provider = container.llm_provider]_vars


(***************************************************************************)
(* The KB text of the desktop client (under SpecGui).                      *)
(***************************************************************************)
\* this step is the named slot of the controller completing with every
\* request it made answered
Completes(name) == gui'.slot = name /\ gui' # gui /\ gui'.ok

\* C36: after change_session or create_new_session completes successfully
\* the KB text of the UI state is the stored KB text of the session whose
\* id is now current; and a save_kb that follows such a step writes into
\* the current session no other text than that session's own.
C36_UiShowsCurrentSession ==
    [][/\ (Completes("change_session") \/ Completes("create_new_session")) =>
            /\ gui'.session_id # NoSessionId
            /\ store'[gui'.session_id].exists
            /\ gui'.kb_text = store'[gui'.session_id].knowledgeBase
       /\ (/\ gui.slot \in {"change_session", "create_new_session"} /\ gui.ok
           /\ gui.kb_save_timer /\ gui'.slot = "save_kb") =>
            \A s \in DOMAIN store :
                store'[s].knowledgeBase = store[s].knowledgeBase]_vars

====
